---- MODULE Spec2Model ----
(***************************************************************************)
(* llm-triage-copilot: the completion-call orchestration of               *)
(* OpenRouterProvider.chat (credential pool x candidate models x          *)
(* attempts), the single-key provider of lib/llm/providers/openrouter.ts, *)
(* and the triage POST handler that calls the provider.                   *)
(***************************************************************************)
EXTENDS Integers, Sequences, FiniteSets, TLC

\* ------------------------------------------------------------------ bounds
MaxKeys == 2          \* largest credential pool explored
MaxCalls == 4         \* network calls explored in one chat invocation

\* ------------------------------------------------------- program constants
maxRetriesPerModel == 2
requestTimeoutMs == 25000
baseDelayMs == 800

\* ------------------------------------------------------------ input sets
PrimaryModels == {"m1"}
FallbackModels == {"", "m1", "m2"}     \* "" : no fallback model configured
Statuses == {200, 400, 404, 429, 503}
BodyAbortStatuses == {404, 429}        \* non-2xx statuses whose body read may be aborted
Contents == {"sev1", "sev2"}            \* non-blank completion texts
LatencyMs == 35                        \* Date.now() - t0 of a call that took time

VARIABLES
    nKeys,         \* this.apiKeys.length
    pc,            \* "idle" | "fetch" | "done" | "responded"
    modelsToTry,   \* candidate models of the running chat invocation
    apiKeyIndex,   \* outer loop variable (0-based)
    modelIdx,      \* position in modelsToTry of the middle loop (1-based)
    attempt,       \* inner loop variable (0-based)
    attempts,      \* the trace: sequence of AttemptEvent
    lastErr,       \* last recorded error (NoErr when null)
    result,        \* how chat ended: NoResult, a Success or a Failure
    calls,         \* history: every fetch issued and every sleep taken, in order
    response,      \* what POST returned to the caller (NoResponse before)
    env,           \* process.env: the values the constructors read
    engine,        \* the engine field of the request ("" before a request)
    runs,          \* store.runs of the metrics store
    recorded,      \* history: number of recordRun calls so far
    dspyCalls,     \* history: every fetch and sleep of callDSPyTriage, in order
    invPos,        \* position of each of the concurrently running POST handlers
    running,       \* the handler the event loop is running (0: none)
    observed,      \* history: what each read of the store saw
    retrieved      \* the retrieve step of POST: useRag, whether it threw, chunk ids

vars == <<nKeys, pc, modelsToTry, apiKeyIndex, modelIdx, attempt, attempts,
          lastErr, result, calls, response, env, engine, runs, recorded, dspyCalls,
          invPos, running, observed, retrieved>>

NoKey == -1                 \* apiKeyIndex left undefined in an AttemptEvent
NoNote == <<>>              \* note left undefined
NoErr == <<>>
NoResult == [kind |-> "none"]
NoResponse == [kind |-> "none"]
NoneRetrieved == [useRag |-> TRUE, failed |-> FALSE, ids |-> <<>>]

\* ------------------------------------------------------------ process.env
\* a string is a sequence of characters; an environment variable is unset
\* or holds a string
Chars == {"k", ",", " "}
Unset == [set |-> FALSE, val |-> <<>>]
Val(str) == [set |-> TRUE, val |-> str]
DefaultEnv == [keys |-> Val(<<"k">>), key |-> Unset, model |-> Val(<<"k">>),
               dspyUrl |-> Val(<<"k">>)]

\* ------------------------------------------------------------ metrics store
storeMax == 200

\* variant: the new run is pushed at the end of the buffer
recordRunPush(rs, run) ==
    IF Len(rs) + 1 > storeMax THEN SubSeq(Append(rs, run), 1, storeMax) ELSE Append(rs, run)

\* runs.unshift(run); if (runs.length > max) runs.length = max
recordRun(rs, run) ==
    IF Len(rs) + 1 > storeMax THEN SubSeq(<<run>> \o rs, 1, storeMax) ELSE <<run>> \o rs

\* ------------------------------------------------------------- AttemptEvent
AttemptEvent(k, m, a, st, lat, nt) ==
    [apiKeyIndex |-> k, model |-> m, attempt |-> a, status |-> st,
     latencyMs |-> lat, note |-> nt]

\* ----------------------------------------------------- outcomes of a fetch
\* fetch : "ok" the promise resolved with a Response, "abort" it rejected with
\*         AbortError (the 25 s timer fired), "error" it rejected otherwise.
\* body  : what res.text() gave: "text" a JSON document whose
\*         choices[0].message.content is not blank, "blank" a JSON document
\*         (or empty body) with blank or missing content, "nonjson" a body
\*         JSON.parse rejects, "abort" res.text() rejected with AbortError,
\*         "other" the body of a non-2xx response (only quoted in messages).
\* content : choices[0].message.content of a "text" body
FetchOutcome(f, st, b, lat, c) ==
    [fetch |-> f, status |-> st, body |-> b, latencyMs |-> lat, content |-> c]

BodyKinds(st) ==
    IF st >= 200 /\ st <= 299
      THEN {"text", "blank", "nonjson", "abort"}
      ELSE IF st \in BodyAbortStatuses THEN {"other", "abort"} ELSE {"other"}

Outcomes ==
    {FetchOutcome("abort", 0, "none", requestTimeoutMs, ""),
     FetchOutcome("error", 0, "none", LatencyMs, "")}
    \cup UNION {{FetchOutcome("ok", st, b, LatencyMs, "") : b \in BodyKinds(st) \ {"text"}} :
                   st \in Statuses}
    \cup UNION {{FetchOutcome("ok", st, "text", LatencyMs, c) : c \in Contents} :
                   st \in {x \in Statuses : "text" \in BodyKinds(x)}}

retryable == {429, 502, 503, 504}
fallbackable == {404, 429, 502, 503, 504}
ResOk(st) == st >= 200 /\ st <= 299

modelsOf(primary, fallback) ==
    <<primary>> \o (IF fallback # "" THEN <<fallback>> ELSE <<>>)

\* variant: the same delay after every attempt
waitMsOfFlat(a) == baseDelayMs

Pow2(n) == IF n = 0 THEN 1 ELSE IF n = 1 THEN 2 ELSE IF n = 2 THEN 4 ELSE 8
waitMsOf(a) == baseDelayMs * Pow2(a)

model == modelsToTry[modelIdx]

\* history records
CallRec(o) ==
    [type |-> "call", apiKeyIndex |-> apiKeyIndex, pos |-> modelIdx,
     attempt |-> attempt, model |-> model, fetch |-> o.fetch,
     status |-> o.status, body |-> o.body, content |-> o.content, ms |-> 0,
     at |-> Len(attempts) + 1]
SleepRec(ms) ==
    [type |-> "sleep", apiKeyIndex |-> apiKeyIndex, pos |-> modelIdx,
     attempt |-> attempt, model |-> model, fetch |-> "none",
     status |-> 0, body |-> "none", content |-> "", ms |-> ms, at |-> 0]

NumCalls == Cardinality({i \in 1..Len(calls) : calls[i].type = "call"})

\* ------------------------------------------------------------------- Init
Init ==
    /\ nKeys \in 1..MaxKeys
    /\ pc = "idle"
    /\ modelsToTry = <<>>
    /\ apiKeyIndex = 0
    /\ modelIdx = 1
    /\ attempt = 0
    /\ attempts = <<>>
    /\ lastErr = NoErr
    /\ result = NoResult
    /\ calls = <<>>
    /\ response = NoResponse
    /\ env = DefaultEnv
    /\ engine = ""
    /\ runs = <<>>
    /\ recorded = 0
    /\ dspyCalls = <<>>
    /\ invPos = <<>>
    /\ running = 0
    /\ observed = <<>>
    /\ retrieved = NoneRetrieved

\* ------------------------------------------------- loop control of chat
\* variant: the retry does not advance the attempt counter
ContinueNoIncrement(tr, ms) ==
    /\ attempts' = tr
    /\ attempt' = attempt
    /\ UNCHANGED <<apiKeyIndex, modelIdx, lastErr, result, pc>>

\* "continue": sleep(waitMs), then the next attempt on the same model
Continue(tr, ms) ==
    /\ attempts' = tr
    /\ attempt' = attempt + 1
    /\ UNCHANGED <<apiKeyIndex, modelIdx, lastErr, result, pc>>

\* "break": leave the attempt loop; next model on this key, or the
\* switch_api_key marker and the next key, or the final throw with the trace
switchRec == AttemptEvent(apiKeyIndex, "(key_failover)", 0, 0, 0, <<"switch_api_key">>)

\* variant: credentials in the inner loop, models in the outer loop
BreakKeysInner(tr, err) ==
    /\ lastErr' = err
    /\ IF apiKeyIndex + 1 < nKeys
         THEN /\ apiKeyIndex' = apiKeyIndex + 1
              /\ attempt' = 0
              /\ attempts' = Append(tr, switchRec)
              /\ UNCHANGED <<modelIdx, result, pc>>
         ELSE IF modelIdx < Len(modelsToTry)
           THEN /\ apiKeyIndex' = 0
                /\ modelIdx' = modelIdx + 1
                /\ attempt' = 0
                /\ attempts' = tr
                /\ UNCHANGED <<result, pc>>
           ELSE /\ attempts' = Append(tr, switchRec)
                /\ result' = [kind |-> "Failure", message |-> err,
                              hasTrace |-> TRUE, trace |-> Append(tr, switchRec)]
                /\ pc' = "done"
                /\ UNCHANGED <<apiKeyIndex, modelIdx, attempt>>

\* variant: the next key is taken without the switch_api_key marker
BreakNoSwitchRec(tr, err) ==
    /\ lastErr' = err
    /\ IF modelIdx < Len(modelsToTry)
         THEN /\ modelIdx' = modelIdx + 1
              /\ attempt' = 0
              /\ attempts' = tr
              /\ UNCHANGED <<apiKeyIndex, result, pc>>
         ELSE IF apiKeyIndex + 1 < nKeys
           THEN /\ apiKeyIndex' = apiKeyIndex + 1
                /\ modelIdx' = 1
                /\ attempt' = 0
                /\ attempts' = tr
                /\ UNCHANGED <<result, pc>>
           ELSE /\ attempts' = Append(tr, switchRec)
                /\ result' = [kind |-> "Failure", message |-> err,
                              hasTrace |-> TRUE, trace |-> Append(tr, switchRec)]
                /\ pc' = "done"
                /\ UNCHANGED <<apiKeyIndex, modelIdx, attempt>>

Break(tr, err) ==
    /\ lastErr' = err
    /\ IF modelIdx < Len(modelsToTry)
         THEN /\ modelIdx' = modelIdx + 1
              /\ attempt' = 0
              /\ attempts' = tr
              /\ UNCHANGED <<apiKeyIndex, result, pc>>
         ELSE IF apiKeyIndex + 1 < nKeys
           THEN /\ apiKeyIndex' = apiKeyIndex + 1
                /\ modelIdx' = 1
                /\ attempt' = 0
                /\ attempts' = Append(tr, switchRec)
                /\ UNCHANGED <<result, pc>>
           ELSE /\ attempts' = Append(tr, switchRec)
                /\ result' = [kind |-> "Failure", message |-> err,
                              hasTrace |-> TRUE, trace |-> Append(tr, switchRec)]
                /\ pc' = "done"
                /\ UNCHANGED <<apiKeyIndex, modelIdx, attempt>>

\* variant: the retry is taken without pushing the backoff record
RetryOrBreakNoBackoffRec(tr, backoffRec, err, o) ==
    IF attempt < maxRetriesPerModel
      THEN /\ Continue(tr, waitMsOf(attempt))
           /\ calls' = calls \o <<CallRec(o), SleepRec(waitMsOf(attempt))>>
      ELSE /\ Break(tr, err)
           /\ calls' = Append(calls, CallRec(o))

\* variant: one retry too many (attempt <= maxRetriesPerModel)
RetryOrBreakOffByOne(tr, backoffRec, err, o) ==
    IF attempt <= maxRetriesPerModel
      THEN /\ Continue(Append(tr, backoffRec), waitMsOf(attempt))
           /\ calls' = calls \o <<CallRec(o), SleepRec(waitMsOf(attempt))>>
      ELSE /\ Break(tr, err)
           /\ calls' = Append(calls, CallRec(o))

\* retry on the same model while attempt < maxRetriesPerModel, else break
RetryOrBreak(tr, backoffRec, err, o) ==
    IF attempt < maxRetriesPerModel
      THEN /\ Continue(Append(tr, backoffRec), waitMsOf(attempt))
           /\ calls' = calls \o <<CallRec(o), SleepRec(waitMsOf(attempt))>>
      ELSE /\ Break(tr, err)
           /\ calls' = Append(calls, CallRec(o))

backoffNote(ms) == <<"backoff", ms>>

\* variant: a timeout is rethrown instead of retried
CatchAbortFatal(tr, e, lat, o) ==
    IF e = "AbortError"
      THEN /\ attempts' = Append(tr, AttemptEvent(apiKeyIndex, model, attempt, 0, lat,
                                                  <<"timeout", requestTimeoutMs>>))
           /\ result' = [kind |-> "Failure", message |-> <<"timeout", model, apiKeyIndex>>,
                         hasTrace |-> TRUE,
                         trace |-> Append(tr, AttemptEvent(apiKeyIndex, model, attempt, 0,
                                                  lat, <<"timeout", requestTimeoutMs>>))]
           /\ pc' = "done"
           /\ lastErr' = <<"timeout", model, apiKeyIndex>>
           /\ calls' = Append(calls, CallRec(o))
           /\ UNCHANGED <<apiKeyIndex, modelIdx, attempt>>
      ELSE RetryOrBreak(
             Append(tr, AttemptEvent(apiKeyIndex, model, attempt, 0, lat,
                                     <<"fetch_error", e>>)),
             AttemptEvent(apiKeyIndex, model, attempt, 0, 0,
                          backoffNote(waitMsOf(attempt))),
             <<"fetch error", model, apiKeyIndex, e>>, o)

\* the catch block: e is "AbortError" or any other error
Catch(tr, e, lat, o) ==
    IF e = "AbortError"
      THEN RetryOrBreak(
             Append(tr, AttemptEvent(apiKeyIndex, model, attempt, 0, lat,
                                     <<"timeout", requestTimeoutMs>>)),
             AttemptEvent(apiKeyIndex, model, attempt, 0, 0,
                          backoffNote(waitMsOf(attempt))),
             <<"timeout", model, apiKeyIndex>>, o)
      ELSE RetryOrBreak(
             Append(tr, AttemptEvent(apiKeyIndex, model, attempt, 0, lat,
                                     <<"fetch_error", e>>)),
             AttemptEvent(apiKeyIndex, model, attempt, 0, 0,
                          backoffNote(waitMsOf(attempt))),
             <<"fetch error", model, apiKeyIndex, e>>, o)

\* the record pushed when fetch resolved
responseRec(o) == AttemptEvent(apiKeyIndex, model, attempt, o.status, o.latencyMs, NoNote)

\* ------------------------------------------------------------ actions
\* POST up to the call of llm.chat: the request picks the models
PostBegin ==
    /\ pc = "idle"
    /\ \E primary \in PrimaryModels, fallback \in FallbackModels :
         modelsToTry' = modelsOf(primary, fallback)
    /\ pc' = "fetch"
    /\ UNCHANGED <<nKeys, apiKeyIndex, modelIdx, attempt, attempts, lastErr,
                   result, calls, response>>
    /\ engine' = "llm"
    /\ UNCHANGED <<env, runs, recorded, dspyCalls>>
    /\ UNCHANGED <<invPos, running, observed>>
    /\ UNCHANGED retrieved

CanFetch == pc = "fetch" /\ NumCalls < MaxCalls

\* fetch rejected (timeout abort or transport error)
FetchThrows ==
    /\ CanFetch
    /\ \E o \in Outcomes :
         /\ o.fetch # "ok"
         /\ Catch(attempts, IF o.fetch = "abort" THEN "AbortError" ELSE "fetch failed",
                  o.latencyMs, o)
    /\ UNCHANGED <<nKeys, modelsToTry, response>>
    /\ UNCHANGED <<env, engine, runs, recorded, dspyCalls>>
    /\ UNCHANGED <<invPos, running, observed>>
    /\ UNCHANGED retrieved

\* fetch resolved, res.text() rejected with AbortError
BodyReadFails ==
    /\ CanFetch
    /\ \E o \in Outcomes :
         /\ o.fetch = "ok" /\ o.body = "abort"
         /\ Catch(Append(attempts, responseRec(o)), "AbortError", requestTimeoutMs, o)
    /\ UNCHANGED <<nKeys, modelsToTry, response>>
    /\ UNCHANGED <<env, engine, runs, recorded, dspyCalls>>
    /\ UNCHANGED <<invPos, running, observed>>
    /\ UNCHANGED retrieved

\* 429 / 502 / 503 / 504
RespRetryable ==
    /\ CanFetch
    /\ \E o \in Outcomes :
         /\ o.fetch = "ok" /\ o.body # "abort"
         /\ o.status \in retryable
         /\ IF attempt >= maxRetriesPerModel /\ o.status \notin fallbackable
              THEN \* throw lastErr, inside the try block
                   Catch(Append(attempts, responseRec(o)), "OpenRouter status",
                         o.latencyMs, o)
              ELSE RetryOrBreak(Append(attempts, responseRec(o)),
                                AttemptEvent(apiKeyIndex, model, attempt, o.status, 0,
                                             backoffNote(waitMsOf(attempt))),
                                <<"status", o.status, model, apiKeyIndex>>, o)
    /\ UNCHANGED <<nKeys, modelsToTry, response>>
    /\ UNCHANGED <<env, engine, runs, recorded, dspyCalls>>
    /\ UNCHANGED <<invPos, running, observed>>
    /\ UNCHANGED retrieved

\* 404: next model at once
Resp404 ==
    /\ CanFetch
    /\ \E o \in Outcomes :
         /\ o.fetch = "ok" /\ o.body # "abort"
         /\ o.status \notin retryable
         /\ o.status = 404
         /\ Break(Append(attempts, responseRec(o)), <<"status", 404, model, apiKeyIndex>>)
         /\ calls' = Append(calls, CallRec(o))
    /\ UNCHANGED <<nKeys, modelsToTry, response>>
    /\ UNCHANGED <<env, engine, runs, recorded, dspyCalls>>
    /\ UNCHANGED <<invPos, running, observed>>
    /\ UNCHANGED retrieved

\* any other non-OK status: throw new Error(...) inside the try block,
\* which the catch block of the same attempt receives
RespOtherNonOk ==
    /\ CanFetch
    /\ \E o \in Outcomes :
         /\ o.fetch = "ok" /\ o.body # "abort"
         /\ o.status \notin retryable /\ o.status # 404
         /\ ~ResOk(o.status)
         /\ Catch(Append(attempts, responseRec(o)), "OpenRouter error", o.latencyMs, o)
    /\ UNCHANGED <<nKeys, modelsToTry, response>>
    /\ UNCHANGED <<env, engine, runs, recorded, dspyCalls>>
    /\ UNCHANGED <<invPos, running, observed>>
    /\ UNCHANGED retrieved

\* 2xx whose body JSON.parse rejects: throw inside the try block
RespNonJson ==
    /\ CanFetch
    /\ \E o \in Outcomes :
         /\ o.fetch = "ok" /\ o.body = "nonjson"
         /\ o.status \notin retryable /\ o.status # 404
         /\ ResOk(o.status)
         /\ Catch(Append(attempts, responseRec(o)), "non-JSON success response",
                  o.latencyMs, o)
    /\ UNCHANGED <<nKeys, modelsToTry, response>>
    /\ UNCHANGED <<env, engine, runs, recorded, dspyCalls>>
    /\ UNCHANGED <<invPos, running, observed>>
    /\ UNCHANGED retrieved

\* variant: a blank completion is returned as a success
RespEmptyCompletionAccepted ==
    /\ CanFetch
    /\ \E o \in Outcomes :
         /\ o.fetch = "ok" /\ o.body = "blank"
         /\ o.status \notin retryable /\ o.status # 404
         /\ ResOk(o.status)
         /\ attempts' = Append(attempts, responseRec(o))
         /\ result' = [kind |-> "Success", text |-> o.content, usedModel |-> model,
                       hasTrace |-> TRUE, trace |-> Append(attempts, responseRec(o))]
         /\ calls' = Append(calls, CallRec(o))
         /\ pc' = "done"
    /\ UNCHANGED <<nKeys, modelsToTry, apiKeyIndex, modelIdx, attempt, lastErr, response>>
    /\ UNCHANGED <<env, engine, runs, recorded, dspyCalls>>
    /\ UNCHANGED <<invPos, running, observed>>
    /\ UNCHANGED retrieved

\* 2xx with blank completion text
RespEmptyCompletion ==
    /\ CanFetch
    /\ \E o \in Outcomes :
         /\ o.fetch = "ok" /\ o.body = "blank"
         /\ o.status \notin retryable /\ o.status # 404
         /\ ResOk(o.status)
         /\ RetryOrBreak(
              attempts \o <<responseRec(o),
                            AttemptEvent(NoKey, model, attempt, 200, 0,
                                         <<"empty_completion">>)>>,
              AttemptEvent(NoKey, model, attempt, 0, 0, backoffNote(waitMsOf(attempt))),
              <<"empty completion", model>>, o)
    /\ UNCHANGED <<nKeys, modelsToTry, response>>
    /\ UNCHANGED <<env, engine, runs, recorded, dspyCalls>>
    /\ UNCHANGED <<invPos, running, observed>>
    /\ UNCHANGED retrieved

\* variant: usedModel reports the primary model, not the loop variable
RespSuccessUsesPrimary ==
    /\ CanFetch
    /\ \E o \in Outcomes :
         /\ o.fetch = "ok" /\ o.body = "text"
         /\ o.status \notin retryable /\ o.status # 404
         /\ ResOk(o.status)
         /\ attempts' = Append(attempts, responseRec(o))
         /\ result' = [kind |-> "Success", text |-> o.content,
                       usedModel |-> modelsToTry[1],
                       hasTrace |-> TRUE, trace |-> Append(attempts, responseRec(o))]
         /\ calls' = Append(calls, CallRec(o))
         /\ pc' = "done"
    /\ UNCHANGED <<nKeys, modelsToTry, apiKeyIndex, modelIdx, attempt, lastErr, response>>
    /\ UNCHANGED <<env, engine, runs, recorded, dspyCalls>>
    /\ UNCHANGED <<invPos, running, observed>>
    /\ UNCHANGED retrieved

\* 2xx with completion text: return
RespSuccess ==
    /\ CanFetch
    /\ \E o \in Outcomes :
         /\ o.fetch = "ok" /\ o.body = "text"
         /\ o.status \notin retryable /\ o.status # 404
         /\ ResOk(o.status)
         /\ attempts' = Append(attempts, responseRec(o))
         /\ result' = [kind |-> "Success", text |-> o.content, usedModel |-> model,
                       hasTrace |-> TRUE, trace |-> Append(attempts, responseRec(o))]
         /\ calls' = Append(calls, CallRec(o))
         /\ pc' = "done"
    /\ UNCHANGED <<nKeys, modelsToTry, apiKeyIndex, modelIdx, attempt, lastErr, response>>
    /\ UNCHANGED <<env, engine, runs, recorded, dspyCalls>>
    /\ UNCHANGED <<invPos, running, observed>>
    /\ UNCHANGED retrieved

\* the run POST records: attempts counts the trace records with latencyMs > 0
httpAttempts ==
    IF result.hasTrace
      THEN Cardinality({i \in 1..Len(result.trace) : result.trace[i].latencyMs > 0})
      ELSE 0
\* variant: every attempt is counted as a retry, for any engine
RunOfPostCountsAll ==
    [seq |-> recorded + 1, engine |-> engine, usedModel |-> result.usedModel,
     attempts |-> httpAttempts, retries |-> httpAttempts]

RunOfPost ==
    [seq |-> recorded + 1, engine |-> engine, usedModel |-> result.usedModel,
     attempts |-> IF engine = "llm" THEN httpAttempts ELSE 0,
     retries |-> IF engine = "llm"
                   THEN (IF httpAttempts - 1 > 0 THEN httpAttempts - 1 ELSE 0)
                   ELSE 0]

\* POST after llm.chat settled: the success path builds the response with
\* the engine trace, the catch block answers 500 with the message only
PostFinish ==
    /\ pc = "done"
    /\ response' =
         IF result.kind = "Success"
           THEN [kind |-> "ok", status |-> 200, error |-> NoErr,
                 usedModel |-> result.usedModel,
                 hasEngineTrace |-> result.hasTrace, engineTrace |-> result.trace]
           ELSE [kind |-> "error", status |-> 500, error |-> result.message,
                 usedModel |-> "", hasEngineTrace |-> FALSE, engineTrace |-> <<>>]
    /\ IF result.kind = "Success"
         THEN /\ runs' = recordRun(runs, RunOfPost)
              /\ recorded' = recorded + 1
         ELSE UNCHANGED <<runs, recorded>>
    /\ pc' = "responded"
    /\ UNCHANGED <<nKeys, modelsToTry, apiKeyIndex, modelIdx, attempt, attempts,
                   lastErr, result, calls, env, engine, dspyCalls>>
    /\ UNCHANGED <<invPos, running, observed>>
    /\ UNCHANGED retrieved

Next ==
    \/ PostBegin
    \/ FetchThrows
    \/ BodyReadFails
    \/ RespRetryable
    \/ Resp404
    \/ RespOtherNonOk
    \/ RespNonJson
    \/ RespEmptyCompletion
    \/ RespSuccess
    \/ PostFinish

Spec == Init /\ [][Next]_vars

\* ---------------------------------------------------------------------
\* The provider of lib/llm/providers/openrouter.ts: one key, no trace, no
\* try/catch and no timeout around fetch.
\* ---------------------------------------------------------------------
SkOutcomes == {o \in Outcomes : o.fetch # "abort" /\ o.body # "abort"}

SkThrow(err) ==
    /\ result' = [kind |-> "Failure", message |-> err, hasTrace |-> FALSE, trace |-> <<>>]
    /\ pc' = "done"
    /\ UNCHANGED <<apiKeyIndex, modelIdx, attempt, lastErr>>

SkInit ==
    /\ nKeys = 1
    /\ pc = "idle"
    /\ modelsToTry = <<>>
    /\ apiKeyIndex = 0
    /\ modelIdx = 1
    /\ attempt = 0
    /\ attempts = <<>>
    /\ lastErr = NoErr
    /\ result = NoResult
    /\ calls = <<>>
    /\ response = NoResponse
    /\ env = DefaultEnv
    /\ engine = ""
    /\ runs = <<>>
    /\ recorded = 0
    /\ dspyCalls = <<>>
    /\ invPos = <<>>
    /\ running = 0
    /\ observed = <<>>
    /\ retrieved = NoneRetrieved

\* await fetch(...) rejected: the exception leaves chat
SkFetchThrows ==
    /\ CanFetch
    /\ \E o \in SkOutcomes :
         /\ o.fetch = "error"
         /\ SkThrow(<<"fetch failed">>)
         /\ calls' = Append(calls, CallRec(o))
    /\ UNCHANGED <<nKeys, modelsToTry, attempts, response>>
    /\ UNCHANGED <<env, engine, runs, recorded, dspyCalls>>
    /\ UNCHANGED <<invPos, running, observed>>
    /\ UNCHANGED retrieved

\* 429: backoff and retry, then the next model, then throw lastErr
Sk429 ==
    /\ CanFetch
    /\ \E o \in SkOutcomes :
         /\ o.fetch = "ok" /\ o.status = 429
         /\ IF attempt < maxRetriesPerModel
              THEN /\ attempt' = attempt + 1
                   /\ calls' = calls \o <<CallRec(o), SleepRec(waitMsOf(attempt))>>
                   /\ UNCHANGED <<apiKeyIndex, modelIdx, lastErr, result, pc>>
              ELSE /\ calls' = Append(calls, CallRec(o))
                   /\ lastErr' = <<"status", 429, model>>
                   /\ IF modelIdx < Len(modelsToTry)
                        THEN /\ modelIdx' = modelIdx + 1
                             /\ attempt' = 0
                             /\ UNCHANGED <<apiKeyIndex, result, pc>>
                        ELSE /\ result' = [kind |-> "Failure",
                                           message |-> <<"status", 429, model>>,
                                           hasTrace |-> FALSE, trace |-> <<>>]
                             /\ pc' = "done"
                             /\ UNCHANGED <<apiKeyIndex, modelIdx, attempt>>
    /\ UNCHANGED <<nKeys, modelsToTry, attempts, response>>
    /\ UNCHANGED <<env, engine, runs, recorded, dspyCalls>>
    /\ UNCHANGED <<invPos, running, observed>>
    /\ UNCHANGED retrieved

\* any other non-OK status: throw
SkNonOk ==
    /\ CanFetch
    /\ \E o \in SkOutcomes :
         /\ o.fetch = "ok" /\ o.status # 429 /\ ~ResOk(o.status)
         /\ SkThrow(<<"status", o.status, model>>)
         /\ calls' = Append(calls, CallRec(o))
    /\ UNCHANGED <<nKeys, modelsToTry, attempts, response>>
    /\ UNCHANGED <<env, engine, runs, recorded, dspyCalls>>
    /\ UNCHANGED <<invPos, running, observed>>
    /\ UNCHANGED retrieved

\* 2xx whose body res.json() rejects: the exception leaves chat
SkJsonThrows ==
    /\ CanFetch
    /\ \E o \in SkOutcomes :
         /\ o.fetch = "ok" /\ o.status # 429 /\ ResOk(o.status) /\ o.body = "nonjson"
         /\ SkThrow(<<"invalid json">>)
         /\ calls' = Append(calls, CallRec(o))
    /\ UNCHANGED <<nKeys, modelsToTry, attempts, response>>
    /\ UNCHANGED <<env, engine, runs, recorded, dspyCalls>>
    /\ UNCHANGED <<invPos, running, observed>>
    /\ UNCHANGED retrieved

\* 2xx with a JSON body: return { text, raw, usedModel }, blank text included
SkReturn ==
    /\ CanFetch
    /\ \E o \in SkOutcomes :
         /\ o.fetch = "ok" /\ o.status # 429 /\ ResOk(o.status)
         /\ o.body \in {"text", "blank"}
         /\ result' = [kind |-> "Success", text |-> o.content, usedModel |-> model,
                       hasTrace |-> FALSE, trace |-> <<>>]
         /\ calls' = Append(calls, CallRec(o))
         /\ pc' = "done"
    /\ UNCHANGED <<nKeys, modelsToTry, apiKeyIndex, modelIdx, attempt, attempts,
                   lastErr, response>>
    /\ UNCHANGED <<env, engine, runs, recorded, dspyCalls>>
    /\ UNCHANGED <<invPos, running, observed>>
    /\ UNCHANGED retrieved

SkNext ==
    \/ PostBegin
    \/ SkFetchThrows
    \/ Sk429
    \/ SkNonOk
    \/ SkJsonThrows
    \/ SkReturn
    \/ PostFinish

SpecSingleKey == SkInit /\ [][SkNext]_vars

\* ---------------------------------------------------------------------
\* Helpers over the history of calls
\* ---------------------------------------------------------------------
CallIdx == {i \in 1..Len(calls) : calls[i].type = "call"}
HasNextCall(i) == \E j \in CallIdx : j > i
NextCall(i) == CHOOSE j \in CallIdx : j > i /\ \A h \in CallIdx : h > i => j <= h
SleepFollows(i) == i < Len(calls) /\ calls[i + 1].type = "sleep"
LexLess(c, d) ==
    \/ c.apiKeyIndex < d.apiKeyIndex
    \/ c.apiKeyIndex = d.apiKeyIndex /\ c.pos < d.pos
    \/ c.apiKeyIndex = d.apiKeyIndex /\ c.pos = d.pos /\ c.attempt < d.attempt
Ended == result.kind # "none"

TypeOK ==
    /\ nKeys \in 1..MaxKeys
    /\ pc \in {"idle", "fetch", "done", "responded"}
    /\ apiKeyIndex \in 0..(nKeys - 1)
    /\ attempt \in 0..maxRetriesPerModel
\* ---------------------------------------------------------------------
\* C1: a response with a non-2xx status outside {429, 502, 503, 504, 404}
\* ends the orchestration at once: nothing (no call, no backoff) follows it
\* and chat has thrown.
\* ---------------------------------------------------------------------
IsFatalStatus(st) == ~ResOk(st) /\ st \notin retryable /\ st # 404

C1_FatalStatusAborts ==
    \A i \in CallIdx :
        (calls[i].fetch = "ok" /\ IsFatalStatus(calls[i].status))
            => (i = Len(calls) /\ result.kind = "Failure")

\* ---------------------------------------------------------------------
\* C2: the first call that returns 2xx with non-blank completion text ends
\* chat with Success: that text, usedModel the model of that call, nothing
\* after it, and the last record of the returned trace is that call's record.
\* ---------------------------------------------------------------------
IsSuccessCall(c) == c.type = "call" /\ c.fetch = "ok" /\ ResOk(c.status) /\ c.body = "text"

C2_SuccessEndsChat ==
    \A i \in CallIdx :
        IsSuccessCall(calls[i]) =>
            /\ i = Len(calls)
            /\ pc \in {"done", "responded"}
            /\ result.kind = "Success"
            /\ result.text = calls[i].content
            /\ result.usedModel = modelsToTry[calls[i].pos]
            /\ result.hasTrace /\ result.trace = attempts
            /\ Len(result.trace) = calls[i].at
            /\ result.trace[Len(result.trace)] =
                 AttemptEvent(calls[i].apiKeyIndex, modelsToTry[calls[i].pos],
                              calls[i].attempt, calls[i].status, LatencyMs, NoNote)

C2_Witness ==
    /\ pc = "responded" /\ result.kind = "Success"
    /\ NumCalls >= 3
    /\ modelsToTry = <<"m1", "m2">> /\ result.usedModel = "m2"

\* ---------------------------------------------------------------------
\* C3: every way chat can end carries the trace, and the trace holds a
\* record for every network call, in the order the calls were issued.
\* ---------------------------------------------------------------------
TraceCoversCalls(tr) ==
    /\ \A i \in CallIdx :
         /\ calls[i].at <= Len(tr)
         /\ tr[calls[i].at].model = modelsToTry[calls[i].pos]
         /\ tr[calls[i].at].attempt = calls[i].attempt
         /\ tr[calls[i].at].apiKeyIndex = calls[i].apiKeyIndex
    /\ \A i, j \in CallIdx : i < j => calls[i].at < calls[j].at

C3_EveryEndCarriesTrace ==
    Ended => (result.hasTrace /\ TraceCoversCalls(result.trace))

\* ---------------------------------------------------------------------
\* C4: when the engine call fails inside POST, the response carries an error
\* field together with the trace the orchestrator accumulated.
\* ---------------------------------------------------------------------
C4_ErrorResponseCarriesTrace ==
    (pc = "responded" /\ result.kind = "Failure") =>
        /\ response.kind = "error" /\ response.error # NoErr
        /\ response.hasEngineTrace
        /\ response.engineTrace = result.trace

\* ---------------------------------------------------------------------
\* C5: calls are issued in lexicographic order of (credential index, model
\* position, attempt); every model position is tried on credential i before
\* credential i+1 is used, and position j before position j+1.
\* ---------------------------------------------------------------------
C5_CallsInLexOrder ==
    /\ \A i, j \in CallIdx : i < j => LexLess(calls[i], calls[j])
    /\ \A j \in CallIdx :
         calls[j].apiKeyIndex > 0 =>
            \A p \in 1..Len(modelsToTry) :
               \E i \in CallIdx : /\ i < j
                                  /\ calls[i].apiKeyIndex = calls[j].apiKeyIndex - 1
                                  /\ calls[i].pos = p
    /\ \A j \in CallIdx :
         calls[j].pos > 1 =>
            \E i \in CallIdx : /\ i < j
                               /\ calls[i].apiKeyIndex = calls[j].apiKeyIndex
                               /\ calls[i].pos = calls[j].pos - 1

C5_Witness ==
    /\ \E i \in CallIdx : calls[i].apiKeyIndex = 1
    /\ \E i \in CallIdx : calls[i].pos = 2
    /\ \E i \in CallIdx : calls[i].attempt >= 1

\* ---------------------------------------------------------------------
\* C6: after a retryable status at attempt a: a < 2 -> a backoff, then the
\* same credential and model with attempt a+1; a = 2 -> no backoff, then
\* the next model on the same credential (or the next credential after the
\* last model) with attempt 0.  No (credential, position) gets more than
\* 3 calls.
\* ---------------------------------------------------------------------
SameSlotNextAttempt(c, d) ==
    /\ d.apiKeyIndex = c.apiKeyIndex /\ d.pos = c.pos /\ d.attempt = c.attempt + 1

NextSlot(c, d) ==
    /\ d.attempt = 0
    /\ IF c.pos < Len(modelsToTry)
         THEN d.apiKeyIndex = c.apiKeyIndex /\ d.pos = c.pos + 1
         ELSE d.apiKeyIndex = c.apiKeyIndex + 1 /\ d.pos = 1

RetriedLikeRetryable(i) ==
    IF calls[i].attempt < maxRetriesPerModel
      THEN /\ SleepFollows(i)
           /\ HasNextCall(i) => SameSlotNextAttempt(calls[i], calls[NextCall(i)])
      ELSE /\ ~SleepFollows(i)
           /\ HasNextCall(i) => NextSlot(calls[i], calls[NextCall(i)])
           /\ (calls[i].pos = Len(modelsToTry) /\ calls[i].apiKeyIndex = nKeys - 1)
                 => result.kind = "Failure"

CallsOn(k, p) == {i \in CallIdx : calls[i].apiKeyIndex = k /\ calls[i].pos = p}

C6_RetryableStatus ==
    /\ \A i \in CallIdx :
         (calls[i].fetch = "ok" /\ calls[i].status \in retryable)
             => RetriedLikeRetryable(i)
    /\ \A k \in 0..(nKeys - 1), p \in 1..2 :
         Cardinality(CallsOn(k, p)) <= maxRetriesPerModel + 1

C6_Witness ==
    \E i \in CallIdx :
        /\ calls[i].fetch = "ok" /\ calls[i].status \in retryable
        /\ calls[i].attempt = 2 /\ calls[i - 1].type = "sleep"
        /\ HasNextCall(i)
\* ---------------------------------------------------------------------
\* C7: one credential, one model, N <= 2 retryable failures, then a success.
\* ---------------------------------------------------------------------
IsEmptyCompletion(c) == c.type = "call" /\ c.fetch = "ok" /\ ResOk(c.status) /\ c.body = "blank"
IsBodyAborted(c) == c.type = "call" /\ c.fetch = "ok" /\ c.body = "abort"

\* a retryable failure: 429/502/503/504, a timeout, a transport error, or an
\* empty completion
IsRetryableFailure(c) ==
    /\ c.type = "call"
    /\ \/ c.fetch \in {"abort", "error"}
       \/ c.fetch = "ok" /\ c.status \in retryable
       \/ c.fetch = "ok" /\ ResOk(c.status) /\ c.body \in {"blank", "abort"}

CountRecs(tr, P(_)) == Cardinality({i \in 1..Len(tr) : P(tr[i])})
IsBackoffRec(r) == r.note # NoNote /\ r.note[1] = "backoff"
IsEmptyRec(r) == r.note = <<"empty_completion">>
IsSwitchRec(r) == r.note = <<"switch_api_key">>

LastCall == CHOOSE i \in CallIdx : \A j \in CallIdx : j <= i
FailuresThenSuccess ==
    /\ nKeys = 1 /\ Len(modelsToTry) = 1
    /\ CallIdx # {}
    /\ IsSuccessCall(calls[LastCall])
    /\ \A i \in CallIdx : i # LastCall => IsRetryableFailure(calls[i])

NFailed == NumCalls - 1

FirstCalls(n) == {i \in CallIdx : Cardinality({j \in CallIdx : j <= i}) <= n}
NthCall(n) == CHOOSE i \in CallIdx : Cardinality({j \in CallIdx : j <= i}) = n

PrimaryBlankThrice ==
    /\ Len(modelsToTry) = 2
    /\ NumCalls >= 3
    /\ \A i \in FirstCalls(3) : IsEmptyCompletion(calls[i])

\* the trace before the first record of the fallback model
BeforeFallback ==
    IF NumCalls >= 4 THEN SubSeq(attempts, 1, calls[NthCall(4)].at - 1) ELSE attempts

C8_EmptyCompletion ==
    /\ \A i \in CallIdx : IsEmptyCompletion(calls[i]) => RetriedLikeRetryable(i)
    /\ PrimaryBlankThrice =>
         /\ IF NumCalls >= 4
              THEN /\ calls[NthCall(4)].apiKeyIndex = 0
                   /\ calls[NthCall(4)].pos = 2
                   /\ calls[NthCall(4)].attempt = 0
                   /\ attempts[calls[NthCall(4)].at].model = modelsToTry[2]
              ELSE /\ pc = "fetch"
                   /\ apiKeyIndex = 0 /\ modelIdx = 2 /\ attempt = 0
         /\ CountRecs(BeforeFallback, IsEmptyRec) = 3
         /\ \A r \in 1..Len(BeforeFallback) :
               /\ BeforeFallback[r].model = modelsToTry[1]
               /\ IsEmptyRec(BeforeFallback[r]) => BeforeFallback[r].status = 200
         /\ ~IsSwitchRec(attempts[Len(BeforeFallback)])

C8_Witness ==
    /\ PrimaryBlankThrice /\ NumCalls = 4
    /\ modelsToTry = <<"m1", "m2">>
    /\ attempts[calls[NthCall(4)].at].model = "m2"

\* ---------------------------------------------------------------------
\* C9: a call that returned 404 is never followed by a backoff for the
\* same (credential, model, attempt), and no further call is made to that
\* model on that credential.
\* ---------------------------------------------------------------------
Is404(c) == c.type = "call" /\ c.fetch = "ok" /\ c.status = 404

C9_No404Backoff ==
    \A i \in CallIdx :
        Is404(calls[i]) =>
            /\ \A j \in (i + 1)..Len(calls) :
                  ~(/\ calls[j].type = "sleep"
                    /\ calls[j].apiKeyIndex = calls[i].apiKeyIndex
                    /\ calls[j].pos = calls[i].pos
                    /\ calls[j].attempt = calls[i].attempt)
            /\ \A r \in (calls[i].at + 1)..Len(attempts) :
                  ~(/\ IsBackoffRec(attempts[r])
                    /\ attempts[r].apiKeyIndex = calls[i].apiKeyIndex
                    /\ attempts[r].model = modelsToTry[calls[i].pos]
                    /\ attempts[r].attempt = calls[i].attempt
                    /\ \A j \in CallIdx : j > i => calls[j].at > r)
            /\ \A j \in CallIdx :
                  j > i => ~(/\ calls[j].apiKeyIndex = calls[i].apiKeyIndex
                             /\ calls[j].pos = calls[i].pos)

\* ---------------------------------------------------------------------
\* C10: after a 404 of model[0] with a second candidate model, the next
\* call is model[1] on the same credential with attempt 0; and the model is
\* tried again from attempt 0 under the next credential.
\* ---------------------------------------------------------------------
C10_After404NextModel ==
    /\ \A i \in CallIdx :
         (Is404(calls[i]) /\ calls[i].pos = 1 /\ Len(modelsToTry) >= 2 /\ HasNextCall(i))
             => /\ calls[NextCall(i)].apiKeyIndex = calls[i].apiKeyIndex
                /\ calls[NextCall(i)].pos = 2
                /\ calls[NextCall(i)].attempt = 0
    /\ \A i, j \in CallIdx :
         (/\ Is404(calls[i])
          /\ calls[j].apiKeyIndex = calls[i].apiKeyIndex + 1
          /\ calls[j].pos >= calls[i].pos)
             => \E h \in CallIdx : /\ h <= j
                                   /\ calls[h].apiKeyIndex = calls[j].apiKeyIndex
                                   /\ calls[h].pos = calls[i].pos
                                   /\ calls[h].attempt = 0
\* ---------------------------------------------------------------------
\* C11: when every candidate model has failed on credential i, one record
\* annotated switch_api_key with index i follows all records of credential
\* i and precedes every record of a call on credential i+1; the marker is
\* appended only for an exhausted credential, never after a success.
\* ---------------------------------------------------------------------
SwitchIdx == {r \in 1..Len(attempts) : IsSwitchRec(attempts[r])}
SwitchOf(k) == {r \in SwitchIdx : attempts[r].apiKeyIndex = k}

C11_SwitchMarker ==
    /\ \A r \in SwitchIdx :
         /\ attempts[r].apiKeyIndex \in 0..(nKeys - 1)
         /\ \A i \in CallIdx :
              /\ calls[i].apiKeyIndex <= attempts[r].apiKeyIndex => calls[i].at < r
              /\ calls[i].apiKeyIndex > attempts[r].apiKeyIndex => calls[i].at > r
         /\ \A q \in 1..(r - 1) :
              attempts[q].apiKeyIndex \in (-1)..attempts[r].apiKeyIndex
         /\ \A p \in 1..Len(modelsToTry) :
              \E i \in CallIdx : /\ calls[i].apiKeyIndex = attempts[r].apiKeyIndex
                                 /\ calls[i].pos = p
                                 /\ ~IsSuccessCall(calls[i])
    /\ \A k \in 0..(nKeys - 1) :
         Cardinality(SwitchOf(k)) =
             IF apiKeyIndex > k \/ result.kind = "Failure" THEN 1 ELSE 0
    /\ \A j \in CallIdx :
         calls[j].apiKeyIndex > 0 =>
            \E r \in SwitchOf(calls[j].apiKeyIndex - 1) : r < calls[j].at
    /\ result.kind = "Success" =>
         /\ ~IsSwitchRec(result.trace[Len(result.trace)])
         /\ Cardinality(SwitchIdx) = apiKeyIndex

C11_Witness ==
    /\ result.kind = "Success" /\ apiKeyIndex = 1
    /\ Cardinality(SwitchIdx) = 1
    /\ \E i \in CallIdx : calls[i].apiKeyIndex = 0 /\ calls[i].attempt = 2

\* ---------------------------------------------------------------------
\* C12: every chat invocation ends after at most
\* |apiKeys| x |modelsToTry| x (maxRetriesPerModel + 1) network calls, at
\* most 3 per (credential, position): every step of chat is one network
\* call, and it strictly lowers the number of slots still ahead.
\* ---------------------------------------------------------------------
PerModel == maxRetriesPerModel + 1
TotalSlots == nKeys * Len(modelsToTry) * PerModel
\* slots of the search not yet used, the current one included
Remaining ==
    (nKeys - 1 - apiKeyIndex) * Len(modelsToTry) * PerModel
    + (Len(modelsToTry) - modelIdx) * PerModel
    + (PerModel - attempt)

C12Bound ==
    /\ \A k \in 0..(nKeys - 1), p \in 1..2 : Cardinality(CallsOn(k, p)) <= PerModel
    /\ pc = "fetch" => (Remaining >= 1 /\ NumCalls + Remaining <= TotalSlots)
    /\ pc \in {"done", "responded"} => NumCalls <= TotalSlots
    /\ (pc # "idle" /\ NumCalls = TotalSlots) => Ended

C12Step ==
    /\ (pc = "fetch" /\ pc' # pc) => (pc' = "done" /\ NumCalls' = NumCalls + 1 /\ Ended')
    /\ (pc = "fetch" /\ pc' = pc) => (NumCalls' = NumCalls + 1 /\ Remaining' < Remaining)
    /\ C12Bound'

C12_BoundedSearch == [][C12Step]_vars

C12_Witness ==
    /\ result.kind = "Failure" /\ NumCalls = TotalSlots
    /\ \A i \in CallIdx : ~Is404(calls[i])

\* ---------------------------------------------------------------------
\* C13: a call that exceeds the 25000 ms timeout gives a record with status
\* 0 and a timeout annotation; a timeout or another transport error is
\* retried like a retryable failure, never treated as fatal.
\* ---------------------------------------------------------------------
TimeoutRecOf(i) ==
    IF calls[i].fetch = "abort" THEN calls[i].at ELSE calls[i].at + 1

C13_TimeoutRetried ==
    \A i \in CallIdx :
        /\ (calls[i].fetch = "abort" \/ IsBodyAborted(calls[i])) =>
              /\ TimeoutRecOf(i) <= Len(attempts)
              /\ attempts[TimeoutRecOf(i)].status = 0
              /\ attempts[TimeoutRecOf(i)].note = <<"timeout", 25000>>
              /\ attempts[TimeoutRecOf(i)].apiKeyIndex = calls[i].apiKeyIndex
              /\ attempts[TimeoutRecOf(i)].model = modelsToTry[calls[i].pos]
              /\ attempts[TimeoutRecOf(i)].attempt = calls[i].attempt
              /\ RetriedLikeRetryable(i)
        /\ calls[i].fetch = "error" =>
              /\ attempts[calls[i].at].status = 0
              /\ attempts[calls[i].at].note[1] = "fetch_error"
              /\ RetriedLikeRetryable(i)

C13_Witness ==
    /\ \E i \in CallIdx : calls[i].fetch = "abort" /\ calls[i].attempt = 2 /\ HasNextCall(i)
    /\ \E i \in CallIdx : calls[i].fetch = "error" /\ calls[i].attempt = 0 /\ HasNextCall(i)

\* ---------------------------------------------------------------------
\* C14: every backoff lasts 800 * 2^attempt ms (800 after attempt 0, 1600
\* after attempt 1), the same after a retryable status, a timeout, a
\* transport error and an empty completion; the backoff record names that
\* number; no backoff follows attempt 2.
\* ---------------------------------------------------------------------
ExpectedWait(a) == IF a = 0 THEN 800 ELSE IF a = 1 THEN 1600 ELSE 3200

\* index in the trace of the backoff record of the sleep calls[j]
BackoffRecOf(j) ==
    IF j < Len(calls) THEN calls[j + 1].at - 1 ELSE Len(attempts)

C14_BackoffDelay ==
    /\ \A j \in 1..Len(calls) :
         calls[j].type = "sleep" =>
            /\ j > 1 /\ calls[j - 1].type = "call"
            /\ calls[j].attempt = calls[j - 1].attempt
            /\ calls[j].attempt < maxRetriesPerModel
            /\ calls[j].ms = ExpectedWait(calls[j].attempt)
            /\ attempts[BackoffRecOf(j)].note = <<"backoff", ExpectedWait(calls[j].attempt)>>
            /\ attempts[BackoffRecOf(j)].attempt = calls[j].attempt
    /\ \A i \in CallIdx :
         /\ (IsRetryableFailure(calls[i]) /\ calls[i].attempt < maxRetriesPerModel)
               => (SleepFollows(i) /\ calls[i + 1].ms = ExpectedWait(calls[i].attempt))
         /\ calls[i].attempt = maxRetriesPerModel => ~SleepFollows(i)
    /\ \A r \in 1..Len(attempts) :
         IsBackoffRec(attempts[r]) =>
            /\ attempts[r].attempt < maxRetriesPerModel
            /\ attempts[r].note[2] = ExpectedWait(attempts[r].attempt)

C14_Witness ==
    /\ \E i \in CallIdx : IsEmptyCompletion(calls[i]) /\ calls[i].attempt = 1
                          /\ SleepFollows(i) /\ calls[i + 1].ms = 1600
    /\ \E i \in CallIdx : calls[i].fetch = "abort" /\ calls[i].attempt = 0
                          /\ SleepFollows(i) /\ calls[i + 1].ms = 800
    /\ \E i \in CallIdx : calls[i].attempt = 2

\* ===================================================== configuration checks
\* The constructor of the pooled provider (part_003) and the entry of
\* callDSPyTriage (part_002), over every small environment.
MaxStrLen == 3

StrUpTo(n) == UNION {[1..k -> Chars] : k \in 0..n}
EnvVals == {Unset} \cup {Val(str) : str \in StrUpTo(MaxStrLen)}
SmallEnvVals == {Unset, Val(<<>>), Val(<<"k">>)}

\* a ?? b
Coalesce(a, b) == IF a.set THEN a ELSE b

\* index of the first "," of str, 0 if there is none
FirstComma(str) ==
    IF \E i \in 1..Len(str) : str[i] = ","
      THEN CHOOSE i \in 1..Len(str) : str[i] = "," /\ \A j \in 1..(i - 1) : str[j] # ","
      ELSE 0

\* str.split(",")
RECURSIVE Split(_)
Split(str) ==
    IF FirstComma(str) = 0
      THEN <<str>>
      ELSE <<SubSeq(str, 1, FirstComma(str) - 1)>>
             \o Split(SubSeq(str, FirstComma(str) + 1, Len(str)))

\* k.trim()
RECURSIVE Trim(_)
Trim(str) ==
    IF str = <<>> THEN str
    ELSE IF Head(str) = " " THEN Trim(Tail(str))
    ELSE IF str[Len(str)] = " " THEN Trim(SubSeq(str, 1, Len(str) - 1))
    ELSE str

MapTrim(parts) == [i \in 1..Len(parts) |-> Trim(parts[i])]
Truthy(str) == str # <<>>

\* variant: the empty entries are kept
apiKeysUnfiltered(keys) == MapTrim(Split(keys))

\* keys.split(",").map(k => k.trim()).filter(Boolean)
apiKeysOf(keys) == SelectSeq(MapTrim(Split(keys)), Truthy)

\* the constructor: the key pool it builds, or the error it throws
Constructor(e) ==
    LET keys == Coalesce(e.keys, Coalesce(e.key, Val(<<>>))).val
    IN  IF ~Truthy(keys)
          THEN [ok |-> FALSE, apiKeys |-> <<>>, message |-> <<"Missing OPENROUTER_API_KEYS or OPENROUTER_API_KEY">>]
        ELSE IF ~(e.model.set /\ Truthy(e.model.val))
          THEN [ok |-> FALSE, apiKeys |-> <<>>, message |-> <<"Missing OPENROUTER_MODEL">>]
        ELSE IF Len(apiKeysOf(keys)) = 0
          THEN [ok |-> FALSE, apiKeys |-> <<>>, message |-> <<"OPENROUTER_API_KEYS/OPENROUTER_API_KEY is empty">>]
        ELSE [ok |-> TRUE, apiKeys |-> apiKeysOf(keys), message |-> NoErr]

CfgInit ==
    /\ env \in [keys : EnvVals, key : EnvVals, model : SmallEnvVals, dspyUrl : SmallEnvVals]
    /\ nKeys = 0
    /\ pc = "idle"
    /\ modelsToTry = <<>>
    /\ apiKeyIndex = 0
    /\ modelIdx = 0
    /\ attempt = 0
    /\ attempts = <<>>
    /\ lastErr = NoErr
    /\ result = NoResult
    /\ calls = <<>>
    /\ response = NoResponse
    /\ engine = ""
    /\ runs = <<>>
    /\ recorded = 0
    /\ dspyCalls = <<>>
    /\ invPos = <<>>
    /\ running = 0
    /\ observed = <<>>
    /\ retrieved = NoneRetrieved

\* POST with an engine other than "dspy": getLLMProvider() runs the constructor
Construct ==
    /\ pc = "idle"
    /\ engine' = "llm"
    /\ IF Constructor(env).ok
         THEN /\ nKeys' = Len(Constructor(env).apiKeys)
              /\ pc' = "constructed"
              /\ UNCHANGED result
         ELSE /\ result' = [kind |-> "Failure", message |-> Constructor(env).message,
                            hasTrace |-> FALSE, trace |-> <<>>]
              /\ pc' = "done"
              /\ UNCHANGED nKeys
    /\ UNCHANGED <<modelsToTry, apiKeyIndex, modelIdx, attempt, attempts, lastErr,
                   calls, response, env, runs, recorded, dspyCalls>>
    /\ UNCHANGED <<invPos, running, observed>>
    /\ UNCHANGED retrieved

\* POST with engine "dspy", up to the call of callDSPyTriage
PostBeginDspy ==
    /\ pc = "idle"
    /\ engine' = "dspy"
    /\ pc' = "dspy0"
    /\ UNCHANGED <<nKeys, modelsToTry, apiKeyIndex, modelIdx, attempt, attempts, lastErr,
                   result, calls, response, env, runs, recorded, dspyCalls>>
    /\ UNCHANGED <<invPos, running, observed>>
    /\ UNCHANGED retrieved

\* callDSPyTriage before its first attempt: the endpoint check
DspyEntry ==
    /\ pc = "dspy0"
    /\ IF ~(env.dspyUrl.set /\ Truthy(env.dspyUrl.val))
         THEN /\ result' = [kind |-> "Failure", message |-> <<"Missing DSPY_SERVICE_URL">>,
                            hasTrace |-> FALSE, trace |-> <<>>]
              /\ pc' = "done"
         ELSE /\ pc' = "dspy1"
              /\ UNCHANGED result
    /\ UNCHANGED <<nKeys, modelsToTry, apiKeyIndex, modelIdx, attempt, attempts, lastErr,
                   calls, response, env, engine, runs, recorded, dspyCalls>>
    /\ UNCHANGED <<invPos, running, observed>>
    /\ UNCHANGED retrieved

CfgNext == Construct \/ PostBeginDspy \/ DspyEntry \/ PostFinish

SpecConfig == CfgInit /\ [][CfgNext]_vars

\* the string holds no key: nothing but separators and whitespace
NoKeyIn(str) == \A i \in 1..Len(str) : str[i] \in {",", " "}
\* the list the constructor reads: the pool variable when it is set, else the single key
ConfiguredKeys == IF env.keys.set THEN env.keys.val
                  ELSE IF env.key.set THEN env.key.val ELSE <<>>
ModelMissing == ~env.model.set \/ env.model.val = <<>>
UrlMissing == ~env.dspyUrl.set \/ env.dspyUrl.val = <<>>
ConfigErrorBeforeAnyCall ==
    /\ pc \in {"done", "responded"}
    /\ result.kind = "Failure"
    /\ calls = <<>>
    /\ dspyCalls = <<>>

\* C15: constructing the provider with an empty key pool (nothing configured,
\* or only separators and whitespace) or with no model throws a configuration
\* error before any network call; callDSPyTriage with no service URL throws
\* before any network call.
C15_ConfigErrors ==
    /\ (engine = "llm" /\ (NoKeyIn(ConfiguredKeys) \/ ModelMissing))
         => ConfigErrorBeforeAnyCall
    /\ (engine = "dspy" /\ pc # "dspy0" /\ UrlMissing)
         => ConfigErrorBeforeAnyCall /\ result.message = <<"Missing DSPY_SERVICE_URL">>

C15_Witness ==
    /\ engine = "llm"
    /\ env.keys = Val(<<" ", ",", " ">>)
    /\ env.key = Val(<<"k">>)
    /\ ~ModelMissing
    /\ pc = "responded"
    /\ response.status = 500

\* ============================================================ callDSPyTriage
\* part_002: one fetch per attempt, at most two attempts.
dspyTimeoutMs == 45000
dspyRetryDelayMs == 2500
DspyStatuses == {200, 404, 500, 503}
\* what the body of a 2xx response can be: a JSON document, the empty string,
\* text that JSON.parse rejects, or a read aborted by the attempt's timer
DspyBodyKinds(st) == IF ResOk(st) THEN {"json", "empty", "nonjson", "abort"} ELSE {"other"}
DspyOutcomes ==
    {[fetch |-> f, status |-> 0, body |-> "none"] : f \in {"abort", "error"}}
      \cup UNION {{[fetch |-> "ok", status |-> st, body |-> b] : b \in DspyBodyKinds(st)}
                    : st \in DspyStatuses}

DspyThrow(msg) == [threw |-> TRUE, message |-> msg, parsed |-> "none",
                   usedModel |-> "", hasTrace |-> FALSE]

\* attemptOnce(timeoutMs, attemptLabel) on a fetch that settles as o
attemptOnce(timeoutMs, attemptLabel, o) ==
    IF o.fetch = "abort" \/ (o.fetch = "ok" /\ o.body = "abort")
      THEN DspyThrow(<<"DSPy timeout", attemptLabel, timeoutMs>>)
    ELSE IF o.fetch = "error"
      THEN DspyThrow(<<"DSPy fetch failed", attemptLabel>>)
    ELSE IF ~ResOk(o.status)
      THEN DspyThrow(<<"DSPy fetch failed", attemptLabel, "DSPy HTTP", o.status>>)
    ELSE IF o.body = "nonjson"
      THEN DspyThrow(<<"DSPy fetch failed", attemptLabel, "DSPy returned non-JSON">>)
    ELSE IF o.body = "empty"
      THEN [threw |-> FALSE, message |-> NoErr, parsed |-> "null",
            usedModel |-> "DSPy", hasTrace |-> FALSE]
    ELSE [threw |-> FALSE, message |-> NoErr, parsed |-> "output",
          usedModel |-> "dspy-model", hasTrace |-> TRUE]

DspyCallRec(attemptLabel, o) ==
    [type |-> "call", label |-> attemptLabel, fetch |-> o.fetch, status |-> o.status,
     body |-> o.body, threw |-> attemptOnce(dspyTimeoutMs, attemptLabel, o).threw]
DspySleepRec(ms) == [type |-> "sleep", ms |-> ms]
DspySuccess(r) == [kind |-> "Success", text |-> "", parsed |-> r.parsed,
                   usedModel |-> r.usedModel, hasTrace |-> r.hasTrace, trace |-> <<>>]

DspyInit ==
    /\ env \in [keys : {Val(<<"k">>)}, key : {Unset}, model : {Val(<<"k">>)},
                dspyUrl : SmallEnvVals]
    /\ nKeys = 1
    /\ pc = "idle"
    /\ modelsToTry = <<>>
    /\ apiKeyIndex = 0
    /\ modelIdx = 0
    /\ attempt = 0
    /\ attempts = <<>>
    /\ lastErr = NoErr
    /\ result = NoResult
    /\ calls = <<>>
    /\ response = NoResponse
    /\ engine = ""
    /\ runs = <<>>
    /\ recorded = 0
    /\ dspyCalls = <<>>
    /\ invPos = <<>>
    /\ running = 0
    /\ observed = <<>>
    /\ retrieved = NoneRetrieved

\* variant: the second attempt follows at once
DspyAttempt1NoSleep ==
    /\ pc = "dspy1"
    /\ \E o \in DspyOutcomes :
         LET r == attemptOnce(dspyTimeoutMs, "attempt-1", o)
         IN  /\ dspyCalls' = Append(dspyCalls, DspyCallRec("attempt-1", o))
             /\ IF r.threw
                  THEN pc' = "dspy2" /\ UNCHANGED result
                  ELSE pc' = "done" /\ result' = DspySuccess(r)
    /\ UNCHANGED <<nKeys, modelsToTry, apiKeyIndex, modelIdx, attempt, attempts, lastErr,
                   calls, response, env, engine, runs, recorded>>
    /\ UNCHANGED <<invPos, running, observed>>
    /\ UNCHANGED retrieved

\* try { return await attemptOnce(45000, "attempt-1") } catch { sleep 2500 ... }
DspyAttempt1 ==
    /\ pc = "dspy1"
    /\ \E o \in DspyOutcomes :
         LET r == attemptOnce(dspyTimeoutMs, "attempt-1", o)
         IN  IF r.threw
               THEN /\ dspyCalls' = dspyCalls \o <<DspyCallRec("attempt-1", o),
                                                   DspySleepRec(dspyRetryDelayMs)>>
                    /\ pc' = "dspy2"
                    /\ UNCHANGED result
               ELSE /\ dspyCalls' = Append(dspyCalls, DspyCallRec("attempt-1", o))
                    /\ pc' = "done"
                    /\ result' = DspySuccess(r)
    /\ UNCHANGED <<nKeys, modelsToTry, apiKeyIndex, modelIdx, attempt, attempts, lastErr,
                   calls, response, env, engine, runs, recorded>>
    /\ UNCHANGED <<invPos, running, observed>>
    /\ UNCHANGED retrieved

\* return await attemptOnce(45000, "attempt-2"): its error propagates
DspyAttempt2 ==
    /\ pc = "dspy2"
    /\ \E o \in DspyOutcomes :
         LET r == attemptOnce(dspyTimeoutMs, "attempt-2", o)
         IN  /\ dspyCalls' = Append(dspyCalls, DspyCallRec("attempt-2", o))
             /\ pc' = "done"
             /\ result' = IF r.threw
                            THEN [kind |-> "Failure", message |-> r.message,
                                  hasTrace |-> FALSE, trace |-> <<>>]
                            ELSE DspySuccess(r)
    /\ UNCHANGED <<nKeys, modelsToTry, apiKeyIndex, modelIdx, attempt, attempts, lastErr,
                   calls, response, env, engine, runs, recorded>>
    /\ UNCHANGED <<invPos, running, observed>>
    /\ UNCHANGED retrieved

DspyNext == PostBeginDspy \/ DspyEntry \/ DspyAttempt1 \/ DspyAttempt2 \/ PostFinish

SpecDSPy == DspyInit /\ [][DspyNext]_vars

DspyCallIdx == {i \in 1..Len(dspyCalls) : dspyCalls[i].type = "call"}
DspyEnded == pc \in {"done", "responded"}
\* the reasons of failure the contract lists
DspyListedFailure(c) ==
    \/ c.fetch \in {"abort", "error"}
    \/ c.fetch = "ok" /\ ~ResOk(c.status)
    \/ c.fetch = "ok" /\ c.body \in {"nonjson", "abort"}

\* C16: callDSPyTriage issues at most two network calls: a first attempt that
\* returns ends the invocation with its result and no second call; a first
\* attempt that fails (timeout, transport error, non-2xx, non-JSON) is followed
\* by a 2500 ms sleep and exactly one second attempt, whose failure propagates
\* with no third attempt.
C16_AtMostTwoCalls ==
    /\ Cardinality(DspyCallIdx) <= 2
    /\ \A i \in DspyCallIdx : DspyListedFailure(dspyCalls[i]) => dspyCalls[i].threw
    /\ pc \in {"idle", "dspy0", "dspy1"} => dspyCalls = <<>>
    /\ pc = "dspy2" =>
         /\ Len(dspyCalls) = 2
         /\ dspyCalls[1].type = "call" /\ dspyCalls[1].label = "attempt-1"
         /\ dspyCalls[1].threw
         /\ dspyCalls[2] = DspySleepRec(2500)
    /\ (DspyEnded /\ dspyCalls # <<>>) =>
         /\ dspyCalls[1].type = "call" /\ dspyCalls[1].label = "attempt-1"
         /\ ~dspyCalls[1].threw =>
              /\ Len(dspyCalls) = 1
              /\ result.kind = "Success"
         /\ dspyCalls[1].threw =>
              /\ Len(dspyCalls) = 3
              /\ dspyCalls[2] = DspySleepRec(2500)
              /\ dspyCalls[3].type = "call" /\ dspyCalls[3].label = "attempt-2"
              /\ dspyCalls[3].threw <=> result.kind = "Failure"
              /\ dspyCalls[3].threw => result.message[2] = "attempt-2"

C16_Witness ==
    /\ pc = "responded"
    /\ Len(dspyCalls) = 3
    /\ dspyCalls[1].fetch = "ok" /\ dspyCalls[1].status = 503
    /\ dspyCalls[3].fetch = "abort"
    /\ response.status = 500

\* C17: an attempt with a non-2xx status or a body that is not a JSON document
\* throws and yields no result; only a 2xx attempt with a JSON body returns.
C17_ResultOnlyFromJson ==
    \A i \in DspyCallIdx :
      ~dspyCalls[i].threw <=>
         (dspyCalls[i].fetch = "ok" /\ ResOk(dspyCalls[i].status) /\ dspyCalls[i].body = "json")

\* ============================================================ recording runs
\* C18: every invocation that reached the engine call has recorded exactly one
\* run when it completes, whether the engine call succeeded or failed, and no
\* invocation records more than one.
C18_OneRunPerInvocation ==
    /\ recorded <= 1
    /\ Len(runs) = recorded
    /\ (pc = "responded" /\ (calls # <<>> \/ dspyCalls # <<>>)) => recorded = 1

\* ============================================================ metrics store
\* store.ts on its own: recordRun called MaxRuns times, listRuns read in
\* every state.
MaxRuns == 206

\* the run of the n-th recordRun call
RunOf(n) == [seq |-> n, engine |-> "llm", usedModel |-> "m1", attempts |-> 1, retries |-> 0]

\* seq.slice(0, end)
SliceTo(seq, end) ==
    LET len == Len(seq)
        e == IF end < 0 THEN (IF len + end > 0 THEN len + end ELSE 0)
             ELSE (IF end < len THEN end ELSE len)
    IN  SubSeq(seq, 1, e)

\* variant: the last entries of the buffer are returned
listRunsOldest(limit) ==
    SubSeq(runs, Len(runs) - Len(SliceTo(runs, limit)) + 1, Len(runs))

\* store.runs.slice(0, limit)
listRuns(limit) == SliceTo(runs, limit)

StoreInit ==
    /\ nKeys = 1
    /\ pc = "idle"
    /\ modelsToTry = <<>>
    /\ apiKeyIndex = 0
    /\ modelIdx = 0
    /\ attempt = 0
    /\ attempts = <<>>
    /\ lastErr = NoErr
    /\ result = NoResult
    /\ calls = <<>>
    /\ response = NoResponse
    /\ env = DefaultEnv
    /\ engine = ""
    /\ runs = <<>>
    /\ recorded = 0
    /\ dspyCalls = <<>>
    /\ invPos = <<>>
    /\ running = 0
    /\ observed = <<>>
    /\ retrieved = NoneRetrieved

StoreRecordRun ==
    /\ recorded < MaxRuns
    /\ runs' = recordRun(runs, RunOf(recorded + 1))
    /\ recorded' = recorded + 1
    /\ UNCHANGED <<nKeys, pc, modelsToTry, apiKeyIndex, modelIdx, attempt, attempts,
                   lastErr, result, calls, response, env, engine, dspyCalls>>
    /\ UNCHANGED <<invPos, running, observed>>
    /\ UNCHANGED retrieved

StoreNext == StoreRecordRun

SpecStore == StoreInit /\ [][StoreNext]_vars

\* the k-th most recently recorded run is the one of call number recorded - k + 1
IsKthMostRecent(run, k) == run.seq = recorded - k + 1

\* C19: after n recordRun calls the buffer holds the min(n, 200) most recent
\* runs, most recent first; it never holds more than 200; after 205 calls
\* listRuns(200) returns 200 entries and the 5 oldest runs are not among them.
C19_BufferHoldsMostRecent ==
    /\ Len(runs) <= 200
    /\ Len(runs) = (IF recorded < 200 THEN recorded ELSE 200)
    /\ \A i \in 1..Len(runs) : IsKthMostRecent(runs[i], i)
    /\ recorded = 205 =>
         /\ Len(listRuns(200)) = 200
         /\ \A i \in 1..200 : IsKthMostRecent(listRuns(200)[i], i)
         /\ \A i \in 1..Len(listRuns(200)) : listRuns(200)[i].seq \notin 1..5

C19_Witness ==
    /\ recorded = 205
    /\ Len(runs) = 200
    /\ runs[1].seq = 205
    /\ runs[200].seq = 6

\* C20: for 1 <= limit <= 200, listRuns(limit) returns the min(limit, n) most
\* recent runs of the buffer (n its size), most recent first, as a prefix of
\* the buffer.
C20_ListRunsPrefix ==
    \A limit \in 1..200 :
      /\ Len(listRuns(limit)) = (IF limit < Len(runs) THEN limit ELSE Len(runs))
      /\ \A i \in 1..Len(listRuns(limit)) :
           /\ listRuns(limit)[i] = runs[i]
           /\ IsKthMostRecent(listRuns(limit)[i], i)

C20_Witness ==
    /\ recorded = 30
    /\ Len(listRuns(50)) = 30
    /\ Len(listRuns(10)) = 10
    /\ listRuns(10)[10].seq = 21

\* ======================================================== metrics read path
\* store.ts summarize / percentile / listRuns and the GET handler of
\* api/metrics, over every small buffer of recorded runs.
MaxBuf == 4

\* an optional field that is absent (undefined)
NoMs == -1
NoStr == "undefined"

\* the runs recorded: field values drawn from the types of TriageRunMetric
RunKinds ==
    { [engine |-> "llm", useRag |-> TRUE, ragMs |-> 10, totalMs |-> 100,
       usedModel |-> "m1", validationOk |-> TRUE, attempts |-> 1, retries |-> 0],
      [engine |-> "llm", useRag |-> FALSE, ragMs |-> 5, totalMs |-> 200,
       usedModel |-> "m2", validationOk |-> FALSE, attempts |-> 3, retries |-> 2],
      [engine |-> "dspy", useRag |-> TRUE, ragMs |-> NoMs, totalMs |-> 300,
       usedModel |-> "DSPy", validationOk |-> TRUE, attempts |-> 0, retries |-> 0],
      [engine |-> NoStr, useRag |-> FALSE, ragMs |-> NoMs, totalMs |-> 400,
       usedModel |-> NoStr, validationOk |-> TRUE, attempts |-> NoMs, retries |-> NoMs],
      [engine |-> "dspy", useRag |-> TRUE, ragMs |-> 20, totalMs |-> 200,
       usedModel |-> "m1", validationOk |-> FALSE, attempts |-> 0, retries |-> 0] }

WithSeq(kind, n) ==
    [seq |-> n, engine |-> kind.engine, useRag |-> kind.useRag, ragMs |-> kind.ragMs,
     totalMs |-> kind.totalMs, usedModel |-> kind.usedModel,
     validationOk |-> kind.validationOk, attempts |-> kind.attempts,
     retries |-> kind.retries]

\* ---- percentile
CeilDiv(a, b) == (a + b - 1) \div b

\* x placed after the entries of the ascending seq that are <= x
InsertAsc(x, seq) ==
    LET k == Cardinality({i \in 1..Len(seq) : seq[i] <= x})
    IN  SubSeq(seq, 1, k) \o <<x>> \o SubSeq(seq, k + 1, Len(seq))

\* [...values].sort((a, b) => a - b)
RECURSIVE SortAsc(_)
SortAsc(values) ==
    IF values = <<>> THEN <<>> ELSE InsertAsc(Head(values), SortAsc(Tail(values)))

\* variant: the rank is not reduced to a 0-based index
percentileNoMinusOne(values, p) ==
    IF Len(values) = 0 THEN 0
    ELSE LET sorted == SortAsc(values)
             idx == CeilDiv(p * Len(sorted), 100)
             hi == IF idx < Len(sorted) - 1 THEN idx ELSE Len(sorted) - 1
         IN  sorted[(IF hi > 0 THEN hi ELSE 0) + 1]

\* percentile(values, p); sequences are 1-based, hence the + 1
percentile(values, p) ==
    IF Len(values) = 0 THEN 0
    ELSE LET sorted == SortAsc(values)
             idx == CeilDiv(p * Len(sorted), 100) - 1
             hi == IF idx < Len(sorted) - 1 THEN idx ELSE Len(sorted) - 1
         IN  sorted[(IF hi > 0 THEN hi ELSE 0) + 1]

\* ---- summarize
IsValidationOk(r) == r.validationOk
IsRagWithMs(r) == r.useRag /\ r.ragMs # NoMs
IsNoRag(r) == ~r.useRag
IsDspyRun(r) == r.engine = "dspy"
IsLlmRun(r) == (IF r.engine = NoStr THEN "llm" ELSE r.engine) = "llm"

totalMsOf(rs) == [i \in 1..Len(rs) |-> rs[i].totalMs]

\* variant: the runs without a retrieval duration are not skipped
ragMsOfAllRag(rs) ==
    LET sel == SelectSeq(rs, LAMBDA r : r.useRag)
    IN  [i \in 1..Len(sel) |-> IF sel[i].ragMs = NoMs THEN sel[i].totalMs ELSE sel[i].ragMs]

\* runs.filter(r => r.useRag && r.ragMs != null).map(r => r.ragMs)
ragMsOf(rs) ==
    LET sel == SelectSeq(rs, IsRagWithMs) IN [i \in 1..Len(sel) |-> sel[i].ragMs]

noRagMsOf(rs) == totalMsOf(SelectSeq(rs, IsNoRag))
dspyTotalMsOf(rs) == totalMsOf(SelectSeq(rs, IsDspyRun))
llmTotalMsOf(rs) == totalMsOf(SelectSeq(rs, IsLlmRun))

\* r.usedModel ?? "unknown"
modelKeyOf(r) == IF r.usedModel = NoStr THEN "unknown" ELSE r.usedModel

\* variant: a model seen again keeps its count
byModelOfFirstOnly(rs) ==
    [m \in {modelKeyOf(rs[i]) : i \in 1..Len(rs)} |-> 1]

\* for (const r of runs) byModel[m] = (byModel[m] ?? 0) + 1
byModelOf(rs) ==
    [m \in {modelKeyOf(rs[i]) : i \in 1..Len(rs)} |->
       Cardinality({i \in 1..Len(rs) : modelKeyOf(rs[i]) = m})]

\* variant: an absent retries field is not replaced by 0
RECURSIVE retriesSumRaw(_)
retriesSumRaw(rs) ==
    IF rs = <<>> THEN 0 ELSE Head(rs).retries + retriesSumRaw(Tail(rs))

\* runs.reduce((sum, r) => sum + (r.retries ?? 0), 0)
RECURSIVE retriesSum(_)
retriesSum(rs) ==
    IF rs = <<>> THEN 0
    ELSE (IF Head(rs).retries = NoMs THEN 0 ELSE Head(rs).retries) + retriesSum(Tail(rs))

\* ok / total as a fraction; 0 when total is 0
validationRateOf(rs) ==
    IF Len(rs) # 0
      THEN [num |-> Len(SelectSeq(rs, IsValidationOk)), den |-> Len(rs)]
      ELSE [num |-> 0, den |-> 1]

summarize(rs) ==
    [total |-> Len(rs),
     validationRate |-> validationRateOf(rs),
     retries |-> retriesSum(rs),
     latency |-> [p50 |-> percentile(totalMsOf(rs), 50),
                  p95 |-> percentile(totalMsOf(rs), 95),
                  ragP50 |-> percentile(ragMsOf(rs), 50),
                  ragP95 |-> percentile(ragMsOf(rs), 95),
                  noRagP50 |-> percentile(noRagMsOf(rs), 50),
                  noRagP95 |-> percentile(noRagMsOf(rs), 95),
                  dspyP50 |-> percentile(dspyTotalMsOf(rs), 50),
                  dspyP95 |-> percentile(dspyTotalMsOf(rs), 95),
                  llmP50 |-> percentile(llmTotalMsOf(rs), 50),
                  llmP95 |-> percentile(llmTotalMsOf(rs), 95)],
     byModel |-> byModelOf(rs)]

\* ---- GET /api/metrics
\* a JavaScript number: NaN, or the value twice / 2 (halves are enough here)
NaN == [nan |-> TRUE, twice |-> 0]
Num(n) == [nan |-> FALSE, twice |-> 2 * n]
Half(h) == [nan |-> FALSE, twice |-> h]

\* the limit query parameter: absent, or the text given
LimitParams ==
    {[kind |-> "absent", twice |-> 0], [kind |-> "empty", twice |-> 0],
     [kind |-> "text", twice |-> 0]}
      \cup {[kind |-> "numeral", twice |-> h] : h \in {-6, 4, 5, 1000}}

\* Number(searchParams.get("limit") ?? "50")
NumberOfLimit(param) ==
    IF param.kind = "absent" THEN Num(50)
    ELSE IF param.kind = "empty" THEN Num(0)
    ELSE IF param.kind = "text" THEN NaN
    ELSE Half(param.twice)

MathMin(a, b) == IF a.nan \/ b.nan THEN NaN ELSE IF a.twice < b.twice THEN a ELSE b
MathMax(a, b) == IF a.nan \/ b.nan THEN NaN ELSE IF a.twice > b.twice THEN a ELSE b

\* ToIntegerOrInfinity, applied by slice to its arguments
ToInteger(x) ==
    IF x.nan THEN 0
    ELSE IF x.twice >= 0 THEN x.twice \div 2 ELSE 0 - ((0 - x.twice) \div 2)

\* Math.max(1, Math.min(200, limit))
limitArgOf(param) == MathMax(Num(1), MathMin(Num(200), NumberOfLimit(param)))

MetricsInit ==
    /\ nKeys = 1
    /\ pc = "idle"
    /\ modelsToTry = <<>>
    /\ apiKeyIndex = 0
    /\ modelIdx = 0
    /\ attempt = 0
    /\ attempts = <<>>
    /\ lastErr = NoErr
    /\ result = NoResult
    /\ calls = <<>>
    /\ response = NoResponse
    /\ env = DefaultEnv
    /\ engine = ""
    /\ runs = <<>>
    /\ recorded = 0
    /\ dspyCalls = <<>>
    /\ invPos = <<>>
    /\ running = 0
    /\ observed = <<>>
    /\ retrieved = NoneRetrieved

\* a completed triage invocation records its run
MetricsRecordRun ==
    /\ recorded < MaxBuf
    /\ \E kind \in RunKinds : runs' = recordRun(runs, WithSeq(kind, recorded + 1))
    /\ recorded' = recorded + 1
    /\ UNCHANGED <<nKeys, pc, modelsToTry, apiKeyIndex, modelIdx, attempt, attempts,
                   lastErr, result, calls, response, env, engine, dspyCalls>>
    /\ UNCHANGED <<invPos, running, observed>>
    /\ UNCHANGED retrieved

\* variant: the handler lists the buffer oldest first, reordering it in place
MetricsGetReverses ==
    /\ LET summary == summarize(runs)
       IN  \E param \in LimitParams :
             response' = [kind |-> "metrics", param |-> param, seen |-> Len(runs), at |-> recorded,
                          limitArg |-> limitArgOf(param),
                          summary |-> summary,
                          runs |-> listRuns(ToInteger(limitArgOf(param)))]
    /\ runs' = [i \in 1..Len(runs) |-> runs[Len(runs) + 1 - i]]
    /\ UNCHANGED <<nKeys, pc, modelsToTry, apiKeyIndex, modelIdx, attempt, attempts,
                   lastErr, result, calls, env, engine, recorded, dspyCalls>>
    /\ UNCHANGED <<invPos, running, observed>>
    /\ UNCHANGED retrieved

\* GET: { summary: summarize(), runs: listRuns(clamped limit) }
MetricsGet ==
    /\ LET summary == summarize(runs)
       IN  \E param \in LimitParams :
             response' = [kind |-> "metrics", param |-> param, seen |-> Len(runs), at |-> recorded,
                          limitArg |-> limitArgOf(param),
                          summary |-> summary,
                          runs |-> listRuns(ToInteger(limitArgOf(param)))]
    /\ UNCHANGED <<nKeys, pc, modelsToTry, apiKeyIndex, modelIdx, attempt, attempts,
                   lastErr, result, calls, env, engine, runs, recorded, dspyCalls>>
    /\ UNCHANGED <<invPos, running, observed>>
    /\ UNCHANGED retrieved

MetricsNext == MetricsRecordRun \/ MetricsGet

SpecMetrics == MetricsInit /\ [][MetricsNext]_vars

\* the limit the contract prescribes: the request's limit clamped to [1, 200],
\* 50 without a parameter, a fraction cut to a whole number of runs
ContractLimit(param) ==
    LET asked == IF param.kind = "absent" THEN 50
                 ELSE IF param.kind = "numeral" THEN param.twice \div 2
                 ELSE 0
    IN  IF asked < 1 THEN 1 ELSE IF asked > 200 THEN 200 ELSE asked

\* C21: for every value of the limit parameter the read endpoint answers with
\* exactly min(L, n) runs, most recent first, L the limit clamped to [1, 200]
\* (50 when absent) and n the buffer size; a non-empty buffer yields at least
\* one run.
C21_LimitClamped ==
    response.kind = "metrics" =>
      /\ Len(response.runs) =
           (IF ContractLimit(response.param) < response.seen
              THEN ContractLimit(response.param) ELSE response.seen)
      /\ response.seen > 0 => Len(response.runs) >= 1

\* a step of the read path: no run is recorded
IsReadStep == recorded' = recorded
\* the last response is a read of the buffer as it is now
FreshRead == response.kind = "metrics" /\ response.at = recorded

C22Step ==
    IsReadStep =>
      /\ runs' = runs
      /\ (FreshRead /\ response'.kind = "metrics") =>
           /\ response'.summary = response.summary
           /\ response'.param = response.param => response'.runs = response.runs

\* C22: summarize and listRuns leave the buffer's contents and order as they
\* were, so two reads with no recordRun between them give identical results.
C22_ReadOnly == [][C22Step]_vars

C22_Witness ==
    /\ FreshRead
    /\ recorded >= 2
    /\ runs[1].totalMs # runs[2].totalMs
    /\ response.summary.total = 2

\* v is the nearest-rank p-th percentile of the values val(i), i in S
\* (0 for an empty S)
NearestRank(v, S, val(_), p) ==
    LET n == Cardinality(S)
        c == CeilDiv(p * n, 100)
        rank == IF c < 1 THEN 1 ELSE IF c > n THEN n ELSE c
    IN  IF n = 0 THEN v = 0
        ELSE /\ \E i \in S : val(i) = v
             /\ Cardinality({i \in S : val(i) < v}) < rank
             /\ Cardinality({i \in S : val(i) <= v}) >= rank

Idx == 1..Len(runs)
TotalMsAt(i) == runs[i].totalMs
RagMsAt(i) == runs[i].ragMs

\* C23: percentile returns 0 for no values, else the value of nearest rank
\* ceil(p/100 * n) of the values in ascending order, always one of the values;
\* latencies 100, 200, 300, 400 give p50 = 200 and p95 = 400.
C23_Percentile ==
    /\ \A p \in {0, 50, 95, 100} :
         /\ NearestRank(percentile(totalMsOf(runs), p), Idx, TotalMsAt, p)
         /\ NearestRank(percentile(ragMsOf(runs), p),
                        {i \in Idx : runs[i].useRag /\ runs[i].ragMs # NoMs}, RagMsAt, p)
    /\ percentile(<<>>, 50) = 0
    /\ {runs[i].totalMs : i \in Idx} = {100, 200, 300, 400} /\ Len(runs) = 4 =>
         /\ percentile(totalMsOf(runs), 50) = 200
         /\ percentile(totalMsOf(runs), 95) = 400

C23_Witness ==
    /\ totalMsOf(runs) = <<300, 100, 400, 200>>
    /\ FreshRead
    /\ response.summary.latency.p50 = 200
    /\ response.summary.latency.p95 = 400

\* C24: each latency slice of summarize is computed over these values of the
\* whole buffer: all runs -> totalMs; RAG -> ragMs of the runs with useRag
\* that have one; non-RAG -> totalMs of the runs without useRag; delegated ->
\* totalMs of the dspy runs; direct -> totalMs of the runs whose engine is llm
\* or absent; an empty slice gives 0.
C24_Slices ==
    LET lat == summarize(runs).latency
        rag == {i \in Idx : runs[i].useRag /\ runs[i].ragMs # NoMs}
        noRag == {i \in Idx : ~runs[i].useRag}
        dspy == {i \in Idx : runs[i].engine = "dspy"}
        llm == {i \in Idx : runs[i].engine \in {"llm", NoStr}}
    IN  /\ NearestRank(lat.p50, Idx, TotalMsAt, 50)
        /\ NearestRank(lat.p95, Idx, TotalMsAt, 95)
        /\ NearestRank(lat.ragP50, rag, RagMsAt, 50)
        /\ NearestRank(lat.ragP95, rag, RagMsAt, 95)
        /\ NearestRank(lat.noRagP50, noRag, TotalMsAt, 50)
        /\ NearestRank(lat.noRagP95, noRag, TotalMsAt, 95)
        /\ NearestRank(lat.dspyP50, dspy, TotalMsAt, 50)
        /\ NearestRank(lat.dspyP95, dspy, TotalMsAt, 95)
        /\ NearestRank(lat.llmP50, llm, TotalMsAt, 50)
        /\ NearestRank(lat.llmP95, llm, TotalMsAt, 95)

C24_Witness ==
    /\ \E i \in Idx : runs[i].useRag /\ runs[i].ragMs = NoMs
    /\ \E i \in Idx : runs[i].useRag /\ runs[i].ragMs = 10
    /\ \E i \in Idx : ~runs[i].useRag /\ runs[i].ragMs = 5
    /\ \E i \in Idx : runs[i].engine = NoStr
    /\ FreshRead
    /\ response.summary.latency.ragP95 = 10
    /\ response.summary.latency.dspyP50 = 300
    /\ response.summary.latency.llmP95 = 400

\* C25: total is the number of runs, validationRate the fraction of runs with
\* validationOk (0 for an empty buffer, always within [0, 1]), retries the sum
\* of the retries fields, an absent field counting 0.
C25_Totals ==
    LET sm == summarize(runs)
        ok == Cardinality({i \in Idx : runs[i].validationOk})
    IN  /\ sm.total = Len(runs)
        /\ Len(runs) > 0 => sm.validationRate.num = ok /\ sm.validationRate.den = Len(runs)
        /\ Len(runs) = 0 => sm.validationRate.num = 0
        /\ sm.validationRate.den > 0
        /\ 0 <= sm.validationRate.num /\ sm.validationRate.num <= sm.validationRate.den
        /\ sm.retries = 1 * Cardinality({i \in Idx : runs[i].retries = 1})
                          + 2 * Cardinality({i \in Idx : runs[i].retries = 2})

C25_Witness ==
    /\ \E i \in Idx : runs[i].retries = NoMs
    /\ \E i \in Idx : runs[i].retries = 2
    /\ \E i \in Idx : ~runs[i].validationOk
    /\ FreshRead
    /\ response.summary.retries = 4
    /\ response.summary.validationRate = [num |-> 1, den |-> 3]

RECURSIVE SumOver(_, _)
SumOver(f, S) == IF S = {} THEN 0
                 ELSE LET m == CHOOSE x \in S : TRUE IN f[m] + SumOver(f, S \ {m})

\* C26: byModel maps each used model of the buffer ("unknown" for a run
\* without one) to the number of runs with it; the counts sum to total and
\* each is at least 1.
C26_ByModel ==
    LET sm == summarize(runs)
        keyOf(i) == IF runs[i].usedModel = NoStr THEN "unknown" ELSE runs[i].usedModel
    IN  /\ DOMAIN sm.byModel = {keyOf(i) : i \in Idx}
        /\ \A m \in DOMAIN sm.byModel :
             /\ sm.byModel[m] = Cardinality({i \in Idx : keyOf(i) = m})
             /\ sm.byModel[m] >= 1
        /\ SumOver(sm.byModel, DOMAIN sm.byModel) = sm.total

C26_Witness ==
    /\ FreshRead
    /\ DOMAIN response.summary.byModel = {"m1", "unknown"}
    /\ response.summary.byModel["m1"] = 2
    /\ response.summary.byModel["unknown"] = 1

\* ===================================================== POST with any engine
\* The triage handler with both engines and with an engine field that names
\* neither: everything but "dspy" takes the provider branch.
PostBeginOther ==
    /\ pc = "idle"
    /\ \E primary \in PrimaryModels, fallback \in FallbackModels :
         modelsToTry' = modelsOf(primary, fallback)
    /\ pc' = "fetch"
    /\ engine' = "other"
    /\ UNCHANGED <<nKeys, apiKeyIndex, modelIdx, attempt, attempts, lastErr,
                   result, calls, response, env, runs, recorded, dspyCalls>>
    /\ UNCHANGED <<invPos, running, observed>>
    /\ UNCHANGED retrieved

TriageNext ==
    \/ Next
    \/ PostBeginOther
    \/ PostBeginDspy
    \/ DspyEntry
    \/ DspyAttempt1
    \/ DspyAttempt2

SpecTriage == Init /\ [][TriageNext]_vars

\* C27: in every recorded run, retries = max(0, attempts - 1) for engine llm,
\* attempts = retries = 0 for engine dspy, and retries is never negative.
C27_RetryCounting ==
    \A i \in 1..Len(runs) :
      /\ runs[i].engine = "llm" =>
           runs[i].retries = (IF runs[i].attempts - 1 > 0 THEN runs[i].attempts - 1 ELSE 0)
      /\ runs[i].engine = "dspy" => runs[i].attempts = 0 /\ runs[i].retries = 0
      /\ runs[i].retries >= 0

C27_Witness ==
    /\ pc = "responded"
    /\ Len(runs) = 1
    /\ runs[1].engine = "llm"
    /\ runs[1].attempts = 3
    /\ runs[1].retries = 2

\* ============================================================ trace records
IsLogicalRec(r) == IsBackoffRec(r) \/ IsEmptyRec(r) \/ IsSwitchRec(r)
\* the trace records appended from call i up to the next call
RecsOfCall(i) ==
    {j \in 1..Len(attempts) :
       /\ j >= calls[i].at
       /\ HasNextCall(i) => j < calls[NextCall(i)].at}

\* C29: every network call of chat contributes exactly one attempt record,
\* carrying the response status or 0 for a timeout or transport failure;
\* every other record is a backoff, an empty_completion or a switch_api_key
\* record.
C29_OneRecordPerCall ==
    /\ \A i \in CallIdx :
         /\ Cardinality({j \in RecsOfCall(i) : ~IsLogicalRec(attempts[j])}) = 1
         /\ ~IsLogicalRec(attempts[calls[i].at])
         /\ attempts[calls[i].at].status =
              (IF calls[i].fetch = "ok" THEN calls[i].status ELSE 0)
    /\ \A j \in 1..Len(attempts) :
         IsLogicalRec(attempts[j]) \/ \E i \in CallIdx : j \in RecsOfCall(i)

MaxInv == 2
MaxReads == 2

\* the buffer after n recordRun calls, most recent first
FilledBuffer(n) == [j \in 1..n |-> RunOf(n - j + 1)]
\* the run invocation i records
ConcRunOf(i) == RunOf(storeMax + i)

ConcInit ==
    /\ nKeys = 1
    /\ pc = "idle"
    /\ modelsToTry = <<>>
    /\ apiKeyIndex = 0
    /\ modelIdx = 0
    /\ attempt = 0
    /\ attempts = <<>>
    /\ lastErr = NoErr
    /\ result = NoResult
    /\ calls = <<>>
    /\ response = NoResponse
    /\ env = DefaultEnv
    /\ engine = ""
    /\ runs \in {FilledBuffer(0), FilledBuffer(storeMax - 1), FilledBuffer(storeMax)}
    /\ recorded = Len(runs)
    /\ dspyCalls = <<>>
    /\ invPos = [i \in 1..MaxInv |-> "idle"]
    /\ running = 0
    /\ observed = <<>>
    /\ retrieved = NoneRetrieved

\* variant: handlers are preempted at any statement
FreePreemptive(i) == TRUE

\* the event loop can run a statement of handler i (0: of a new callback):
\* no other handler is between two awaits
Free(i) == running = 0 \/ running = i

\* POST arrives and runs up to the await of the engine call
ConcBegin(i) ==
    /\ Free(0)
    /\ invPos[i] = "idle"
    /\ invPos' = [invPos EXCEPT ![i] = "engine"]
    /\ UNCHANGED <<nKeys, pc, modelsToTry, apiKeyIndex, modelIdx, attempt, attempts,
                   lastErr, result, calls, response, env, engine, runs, recorded,
                   dspyCalls, running, observed>>
    /\ UNCHANGED retrieved

\* the engine call of handler i resolved: the handler continues to recordRun
ConcResume(i) ==
    /\ Free(0)
    /\ invPos[i] = "engine"
    /\ invPos' = [invPos EXCEPT ![i] = "unshift"]
    /\ running' = i
    /\ UNCHANGED <<nKeys, pc, modelsToTry, apiKeyIndex, modelIdx, attempt, attempts,
                   lastErr, result, calls, response, env, engine, runs, recorded,
                   dspyCalls, observed>>
    /\ UNCHANGED retrieved

\* store.runs.unshift(run)
ConcUnshift(i) ==
    /\ Free(i)
    /\ invPos[i] = "unshift"
    /\ runs' = <<ConcRunOf(i)>> \o runs
    /\ recorded' = recorded + 1
    /\ invPos' = [invPos EXCEPT ![i] = "truncate"]
    /\ UNCHANGED <<nKeys, pc, modelsToTry, apiKeyIndex, modelIdx, attempt, attempts,
                   lastErr, result, calls, response, env, engine, dspyCalls,
                   running, observed>>
    /\ UNCHANGED retrieved

\* if (store.runs.length > store.max) store.runs.length = store.max; then the
\* handler returns its response
ConcTruncate(i) ==
    /\ Free(i)
    /\ invPos[i] = "truncate"
    /\ runs' = IF Len(runs) > storeMax THEN SubSeq(runs, 1, storeMax) ELSE runs
    /\ invPos' = [invPos EXCEPT ![i] = "done"]
    /\ running' = 0
    /\ UNCHANGED <<nKeys, pc, modelsToTry, apiKeyIndex, modelIdx, attempt, attempts,
                   lastErr, result, calls, response, env, engine, recorded,
                   dspyCalls, observed>>
    /\ UNCHANGED retrieved

\* GET /api/metrics: summarize() and listRuns() in one expression
ConcRead ==
    /\ Free(0)
    /\ Len(observed) < MaxReads
    /\ observed' = Append(observed, [total |-> Len(runs), runs |-> listRuns(storeMax)])
    /\ UNCHANGED <<nKeys, pc, modelsToTry, apiKeyIndex, modelIdx, attempt, attempts,
                   lastErr, result, calls, response, env, engine, runs, recorded,
                   dspyCalls, invPos, running>>
    /\ UNCHANGED retrieved

ConcNext ==
    \/ \E i \in 1..MaxInv : ConcBegin(i)
    \/ \E i \in 1..MaxInv : ConcResume(i)
    \/ \E i \in 1..MaxInv : ConcUnshift(i)
    \/ \E i \in 1..MaxInv : ConcTruncate(i)
    \/ ConcRead

SpecConcurrent == ConcInit /\ [][ConcNext]_vars

\* a buffer between appends: the new runs, each once, before the most recent
\* old runs in their order, nothing beyond the capacity of 200
IsNewRun(r) == r.seq > 200
WholeBuffer(buf) ==
    LET new == {j \in 1..Len(buf) : IsNewRun(buf[j])}
        old == {j \in 1..Len(buf) : ~IsNewRun(buf[j])}
        before == IF old = {} THEN 0 ELSE buf[CHOOSE j \in old : \A h \in old : j <= h].seq
    IN  /\ \A j, h \in 1..Len(buf) : j # h => buf[j] # buf[h]
        /\ \A j \in new, h \in old : j < h
        /\ \A j, h \in old : j < h => buf[j].seq = buf[h].seq + (h - j)
        /\ Len(buf) = (IF before + Cardinality(new) < 200
                         THEN before + Cardinality(new) ELSE 200)
Applied(i) == invPos[i] = "done"
Quiescent == \A i \in 1..MaxInv : invPos[i] \in {"idle", "engine", "done"}

\* C28: recordRun is atomic with respect to other recordRun calls and to
\* readers: between appends the buffer holds the run of each completed
\* invocation exactly once, and every read saw a buffer wholly before or
\* wholly after each append.
C28_AtomicAppend ==
    /\ Quiescent =>
         /\ WholeBuffer(runs)
         /\ \A i \in 1..MaxInv :
              Cardinality({j \in 1..Len(runs) : runs[j] = ConcRunOf(i)})
                = (IF Applied(i) THEN 1 ELSE 0)
    /\ \A k \in 1..Len(observed) :
         /\ WholeBuffer(observed[k].runs)
         /\ observed[k].total = Len(observed[k].runs)
         /\ \A h \in 1..Len(observed) :
              k < h => \A j \in 1..Len(observed[k].runs) :
                         IsNewRun(observed[k].runs[j]) =>
                           \E q \in 1..Len(observed[h].runs) :
                             observed[h].runs[q] = observed[k].runs[j]

C28_Witness ==
    /\ \A i \in 1..MaxInv : Applied(i)
    /\ Len(runs) = 200
    /\ runs[3].seq = 200
    /\ Len(observed) = 2
    /\ observed[1].total = 200 /\ ~IsNewRun(observed[1].runs[1])
    /\ IsNewRun(observed[2].runs[1]) /\ ~IsNewRun(observed[2].runs[2])

\* ========================================================= attempts of a run
\* C31: the attempts value of a recorded direct-engine run is the number of
\* network calls chat issued in that invocation: backoff, empty_completion
\* and switch_api_key records are not counted and no call is counted twice.
C31_AttemptsAreCalls ==
    \A i \in 1..Len(runs) :
      runs[i].engine = "llm" => runs[i].attempts = NumCalls

\* ============================================================ engine slices
\* C32: every run the handler can record is counted in exactly one of the two
\* engine slices of summarize: for every value of the request's engine field
\* the dspy slice and the llm slice together hold total runs.
C32_EngineSlicesCoverTotal ==
    /\ Len(SelectSeq(runs, IsDspyRun)) + Len(SelectSeq(runs, IsLlmRun)) = Len(runs)
    /\ \A i \in 1..Len(runs) : ~(IsDspyRun(runs[i]) /\ IsLlmRun(runs[i]))

\* ======================================================= citation guardrail
\* POST after a returned engine result: validation (route.ts:210-225) and the
\* citation filter (route.ts:236-242), over every small engine output.
MaxCitations == 2

\* what retrieve left in chunks: RAG off, retrieve threw, or its chunks
RetrieveOutcomes ==
    {[useRag |-> FALSE, failed |-> FALSE, ids |-> <<>>],
     [useRag |-> TRUE, failed |-> TRUE, ids |-> <<>>],
     [useRag |-> TRUE, failed |-> FALSE, ids |-> <<>>],
     [useRag |-> TRUE, failed |-> FALSE, ids |-> <<"s1">>],
     [useRag |-> TRUE, failed |-> FALSE, ids |-> <<"s1", "s2">>]}

\* an entry of a citations array in the engine's JSON: an object with an id,
\* an object without one, or null
CitationItems ==
    {[kind |-> "obj", id |-> i] : i \in {"s1", "s2", "x"}}
      \cup {[kind |-> "noid", id |-> NoStr], [kind |-> "null", id |-> NoStr]}

\* the citations property: absent, an array, or a non-empty string
CitationVals ==
    {[kind |-> "absent", items |-> <<>>], [kind |-> "string", items |-> <<>>]}
      \cup {[kind |-> "array", items |-> it] :
              it \in UNION {[1..n -> CitationItems] : n \in 0..MaxCitations}}

\* parsedCandidate: null, a JSON value that is not an object, or an object
\* whose other fields pass or fail the schema
Candidates ==
    {[shape |-> "null", fieldsOk |-> FALSE, citations |-> [kind |-> "absent", items |-> <<>>]],
     [shape |-> "string", fieldsOk |-> FALSE, citations |-> [kind |-> "absent", items |-> <<>>]]}
      \cup {[shape |-> "object", fieldsOk |-> ok, citations |-> c] :
              ok \in BOOLEAN, c \in CitationVals}

\* TriageSchema.safeParse(parsedCandidate).success
SchemaOk(c) ==
    /\ c.shape = "object"
    /\ c.fieldsOk
    /\ \/ c.citations.kind = "absent"
       \/ /\ c.citations.kind = "array"
          /\ \A n \in 1..Len(c.citations.items) : c.citations.items[n].kind = "obj"

\* parsed and validationError after validation: the candidate is kept when
\* the schema rejects it
Validate(c) == [parsed |-> c, validationOk |-> c.shape # "null" /\ SchemaOk(c)]

\* if (parsed?.citations?.length) parsed.citations = parsed.citations.filter(...)
Guardrail(parsed, ids) ==
    LET cit == parsed.citations
        allowedIds == {ids[n] : n \in 1..Len(ids)}
        IsAllowed(c) == c.id \in allowedIds
    IN  IF parsed.shape # "object" \/ cit.kind = "absent"
             \/ (cit.kind = "array" /\ Len(cit.items) = 0)
          THEN [threw |-> FALSE, parsed |-> parsed]
        ELSE IF cit.kind = "string"
          THEN [threw |-> TRUE, parsed |-> parsed]
        ELSE IF \E n \in 1..Len(cit.items) : cit.items[n].kind = "null"
          THEN [threw |-> TRUE, parsed |-> parsed]
        ELSE [threw |-> FALSE,
              parsed |-> [parsed EXCEPT !.citations.items = SelectSeq(cit.items, IsAllowed)]]

\* POST up to the engine call: the retrieve step
GrBegin ==
    /\ pc = "idle"
    /\ \E r \in RetrieveOutcomes : retrieved' = r
    /\ engine' = "llm"
    /\ pc' = "engine"
    /\ UNCHANGED <<nKeys, modelsToTry, apiKeyIndex, modelIdx, attempt, attempts, lastErr,
                   result, calls, response, env, runs, recorded, dspyCalls,
                   invPos, running, observed>>

\* the engine call returned: parsedCandidate is what its output parses to
GrEngineReturns ==
    /\ pc = "engine"
    /\ \E c \in Candidates :
         result' = [kind |-> "Success", text |-> "", parsed |-> c, usedModel |-> "m1",
                    hasTrace |-> FALSE, trace |-> <<>>]
    /\ pc' = "done"
    /\ UNCHANGED <<nKeys, modelsToTry, apiKeyIndex, modelIdx, attempt, attempts, lastErr,
                   calls, response, env, engine, runs, recorded, dspyCalls,
                   invPos, running, observed, retrieved>>

\* validation, citation filter, recordRun and the response; a throw on the
\* way is caught by the handler's catch, which answers 500
PostFinishGuarded ==
    /\ pc = "done"
    /\ result.kind = "Success"
    /\ LET v == Validate(result.parsed)
           g == Guardrail(v.parsed, retrieved.ids)
       IN  IF g.threw
             THEN /\ response' = [kind |-> "error", status |-> 500, error |-> <<"TypeError">>,
                                  parsed |-> v.parsed, validationOk |-> v.validationOk,
                                  sources |-> retrieved.ids]
                  /\ UNCHANGED <<runs, recorded>>
             ELSE /\ response' = [kind |-> "ok", status |-> 200, error |-> NoErr,
                                  parsed |-> g.parsed, validationOk |-> v.validationOk,
                                  sources |-> retrieved.ids]
                  /\ runs' = recordRun(runs, RunOfPost)
                  /\ recorded' = recorded + 1
    /\ pc' = "responded"
    /\ UNCHANGED <<nKeys, modelsToTry, apiKeyIndex, modelIdx, attempt, attempts, lastErr,
                   result, calls, env, engine, dspyCalls, invPos, running, observed,
                   retrieved>>

GrNext == GrBegin \/ GrEngineReturns \/ PostFinishGuarded

SpecGuardrail == Init /\ [][GrNext]_vars

\* C33: in every successful response each citation left in parsed.citations
\* has the id of a retrieved source; with no source retrieved no citation is
\* left; the filter never turns a request that would succeed into an error.
C33_CitationGuardrail ==
    pc = "responded" =>
      /\ response.kind = "ok"
      /\ \A n \in 1..Len(response.parsed.citations.items) :
           \E q \in 1..Len(retrieved.ids) :
             response.parsed.citations.items[n].id = retrieved.ids[q]
      /\ retrieved.ids = <<>> => response.parsed.citations.items = <<>>
====
